---- MODULE Spec2Model ----
(***************************************************************************)
(* Context Assembly Engine: the read-only query path of the database       *)
(* connector (validation, masking, query cache, connection pool) and the   *)
(* context manager (workflow contexts, their durable records, cleanup).    *)
(*                                                                         *)
(* Text is modelled at two grains.  A query is a sequence of lexemes: a    *)
(* word lexeme is a maximal-run candidate of \w characters, " " is         *)
(* whitespace and ";" is punctuation; two adjacent word lexemes form one   *)
(* longer word, so neither of them stands between word boundaries.  A      *)
(* column name and a string value are sequences of one-character strings.  *)
(***************************************************************************)
EXTENDS Integers, Sequences, FiniteSets, TLC

VARIABLES
    vq,           \* validate_query: the query under validation
    vres,         \* validate_query: "none" before the call, then "accepted" / "rejected"
    mcol,         \* mask_sensitive_data: the column name
    mval,         \* mask_sensitive_data: a pair of original values
    mout,         \* mask_sensitive_data: <<>> before the call, then the pair of outputs
    now,          \* datetime.now(), in seconds
    dbTable,      \* the rows the database returns to a query
    dbSchema,     \* the tables of the schema in the database: [n, a, b, z] of SchemaOf
    initialized,  \* DatabaseConnector._initialized
    pool,         \* ConnectionPool._pool: "None" or "SessionPool"
    query_cache,  \* QueryExecutor._query_cache: key -> [result, time]
    lastCall,     \* the last call of the connector: what it did, in order, and its outcome
    schema_cache, \* SchemaAnalyzer._cache: schema name -> [result, time]
    analyses,     \* the calls of analyze_schema under way: id -> the state of the call
    busy,         \* the connections acquired from the session pool and not released
    active,       \* ContextManager._active_contexts: context id -> WorkflowContext
    current,      \* ContextManager._current_context_id
    disk,         \* the durable records of cache_dir: context id -> JSON data
    scan_cache,   \* RepositoryScanner._cache: root path -> RepositoryInfo
    rel_cache,    \* ContextRelevanceAnalyzer.cache: description -> [scores, time]
    scan_calls,   \* the calls of scan_repositories under way: call -> its single scans
    scan_file,    \* repository_cache.json: root path -> JSON data
    database_connector,  \* ContextManager.database_connector: a connector or "None"
    db_calls,     \* the calls of set_database_context under way: call -> its state
    rel_in,       \* _calculate_repository_relevance: its arguments
    rel_out,      \*   and the score it returns
    tab_in,       \* _identify_relevant_tables: its arguments
    tab_out       \*   and the list it returns

rankVars == <<rel_in, rel_out, tab_in, tab_out>>
pureVars == <<vq, vres, mcol, mval, mout, rankVars>>
schemaVars == <<schema_cache, analyses, busy>>
dbVars == <<dbTable, dbSchema, initialized, pool, query_cache, lastCall, schemaVars>>
ctxVars == <<active, current, disk, scan_cache, rel_cache, database_connector, db_calls>>
scanVars == <<scan_calls, scan_file>>
vars == <<pureVars, now, dbVars, ctxVars, scanVars>>

(***************************************************************************)
(* Bounds                                                                  *)
(***************************************************************************)
MaxQueryLen == 4
MaxValueLen == 9
MaxRows == 1
MaxTtlSpans == 1
MaxContexts == 1
MaxHours == 1

(***************************************************************************)
(* Sequence helpers                                                        *)
(***************************************************************************)
Min(a, b) == IF a < b THEN a ELSE b

Rep(c, n) == [i \in 1..n |-> c]

SeqsUpTo(S, n) == UNION {[1..k -> S] : k \in 0..n}

\* Python's `needle in haystack` on strings
Contains(haystack, needle) ==
    \E i \in 0..(Len(haystack) - Len(needle)) :
        \A j \in 1..Len(needle) : haystack[i + j] = needle[j]

(***************************************************************************)
(* DatabaseSecurity.validate_query                                         *)
(***************************************************************************)
Lexemes == {"select", "Select", "WITH", "describe", "DESC", "drop", "Drop",
            "exec", "EXECUTE", "x", " ", ";"}

IsSpace(l) == l = " "
IsWordLex(l) == l \notin {" ", ";"}

\* str.upper() on one lexeme
UpperLex(l) ==
    CASE l \in {"select", "Select", "SELECT"} -> "SELECT"
      [] l \in {"with", "WITH"} -> "WITH"
      [] l \in {"explain", "EXPLAIN"} -> "EXPLAIN"
      [] l \in {"describe", "DESCRIBE"} -> "DESCRIBE"
      [] l \in {"desc", "DESC"} -> "DESC"
      [] l \in {"drop", "Drop", "DROP"} -> "DROP"
      [] l \in {"exec", "EXEC"} -> "EXEC"
      [] l \in {"execute", "EXECUTE"} -> "EXECUTE"
      [] l = "x" -> "X"
      [] OTHER -> l

Upper(q) == [i \in 1..Len(q) |-> UpperLex(q[i])]

RECURSIVE LStrip(_)
LStrip(q) == IF q # <<>> /\ IsSpace(Head(q)) THEN LStrip(Tail(q)) ELSE q

RECURSIVE RStrip(_)
RStrip(q) ==
    IF q # <<>> /\ IsSpace(q[Len(q)]) THEN RStrip(SubSeq(q, 1, Len(q) - 1)) ELSE q

\* str.strip()
Strip(q) == RStrip(LStrip(q))

ALLOWED_PATTERNS == {"SELECT", "WITH", "EXPLAIN", "DESCRIBE", "DESC"}

FORBIDDEN_PATTERNS == {"INSERT", "UPDATE", "DELETE", "DROP", "CREATE", "ALTER",
                       "TRUNCATE", "GRANT", "REVOKE", "EXEC", "EXECUTE"}

\* re.match(r'^P\s+', s): the text starts with the word P and whitespace follows it
MatchAllowed(p, s) == Len(s) >= 2 /\ s[1] = p /\ IsSpace(s[2])

\* re.search(r'\bW\b', s): W occurs with a word boundary on both sides
SearchForbidden(w, s) ==
    \E i \in 1..Len(s) :
        /\ s[i] = w
        /\ (i = 1 \/ ~IsWordLex(s[i - 1]))
        /\ (i = Len(s) \/ ~IsWordLex(s[i + 1]))

\* a plausible slip: the deny-list is searched as it is described, without EXECUTE
validate_query_noexecute(query) ==
    LET query_upper == Strip(Upper(query))
        allowed == \E p \in ALLOWED_PATTERNS : MatchAllowed(p, query_upper)
        forbidden == \E w \in FORBIDDEN_PATTERNS \ {"EXECUTE"} :
                         SearchForbidden(w, query_upper)
    IN  allowed /\ ~forbidden

validate_query(query) ==
    LET query_upper == Strip(Upper(query))
        allowed == \E p \in ALLOWED_PATTERNS : MatchAllowed(p, query_upper)
        forbidden == \E w \in FORBIDDEN_PATTERNS : SearchForbidden(w, query_upper)
    IN  IF ~allowed THEN FALSE
        ELSE IF forbidden THEN FALSE
        ELSE TRUE

Queries == SeqsUpTo(Lexemes, MaxQueryLen)

(***************************************************************************)
(* DatabaseSecurity.mask_sensitive_data                                    *)
(***************************************************************************)
None == [kind |-> "none"]
StrVal(cs) == [kind |-> "str", chars |-> cs]
IntVal(n) == [kind |-> "int", num |-> n]

SENSITIVE_COLUMNS == {
    <<"p", "a", "s", "s", "w", "o", "r", "d">>,
    <<"s", "s", "n">>,
    <<"s", "o", "c", "i", "a", "l">>,
    <<"c", "r", "e", "d", "i", "t">>,
    <<"c", "a", "r", "d">>,
    <<"t", "o", "k", "e", "n">>,
    <<"s", "e", "c", "r", "e", "t">>,
    <<"k", "e", "y">>,
    <<"p", "i", "n">> }

\* str.lower() on one character
LowerChar(c) ==
    CASE c = "A" -> "a" [] c = "E" -> "e" [] c = "I" -> "i" [] c = "K" -> "k"
      [] c = "M" -> "m" [] c = "N" -> "n" [] c = "P" -> "p" [] c = "Y" -> "y"
      [] OTHER -> c

Lower(s) == [i \in 1..Len(s) |-> LowerChar(s[i])]

\* any(re.match('.*pat.*', column_lower)): pat occurs somewhere in the name
is_sensitive(column_name) ==
    \E pat \in SENSITIVE_COLUMNS : Contains(Lower(column_name), pat)

Stars(n) == StrVal(Rep("*", n))

\* a plausible slip: the string mask is not capped at 8 characters
mask_sensitive_data_uncapped(column_name, value) ==
    IF value = None THEN None
    ELSE IF is_sensitive(column_name)
         THEN IF value.kind = "str" THEN Stars(Len(value.chars)) ELSE Stars(3)
         ELSE value

mask_sensitive_data(column_name, value) ==
    IF value = None THEN None
    ELSE IF is_sensitive(column_name)
         THEN IF value.kind = "str"
              THEN Stars(Min(Len(value.chars), 8))
              ELSE Stars(3)
         ELSE value

\* PIN, Key, shipping (contains "pin"), name
ColumnNames == { <<"P", "I", "N">>,
                 <<"A", "p", "i", "K", "e", "y">>,
                 <<"s", "h", "i", "p", "p", "i", "n", "g">>,
                 <<"n", "a", "m", "e">> }

Values == {None, IntVal(7), IntVal(0)}
          \cup {StrVal(Rep("a", n)) : n \in 0..MaxValueLen}
          \cup {Stars(n) : n \in 1..3}

MaskIdle == mcol = <<>> /\ mval = <<>> /\ mout = <<>>
RankIdle == rel_in = <<>> /\ rel_out = <<>> /\ tab_in = <<>> /\ tab_out = <<>>
ValidateIdle == vq = <<>> /\ vres = "none"

(***************************************************************************)
(* ConnectionPool, QueryExecutor, DatabaseConnector                        *)
(***************************************************************************)
QUERY_CACHE_TTL == 900

\* what the connector is asked to run
Q_SELECT == <<"select", " ", "x">>
Q_DROP == <<"Drop", " ", "x">>
Q_DUAL == <<"SELECT", " ", "1", " ", "FROM", " ", "DUAL">>

ExecQueries == {Q_SELECT, Q_DROP}

NoParams == "None"
QueryParams == {NoParams, "{'limit': 10}"}

\* the column layouts of the tables queried: (PIN) and (name, ApiKey)
Layouts == { << <<"P", "I", "N">> >>,
             << <<"n", "a", "m", "e">>, <<"A", "p", "i", "K", "e", "y">> >> }

DbValues == {None, IntVal(7), StrVal(<<>>), StrVal(Rep("a", 3))}

Tables ==
    UNION { [columns : {l}, rows : [1..r -> [1..Len(l) -> DbValues]]] :
              l \in Layouts, r \in 0..MaxRows }

DualTable == [columns |-> << <<"1">> >>, rows |-> << <<IntVal(1)>> >>]

\* cursor.fetchall() and cursor.description for a query
Fetch(query) == IF query = Q_DUAL THEN DualTable ELSE dbTable

NoResult == [columns |-> <<>>, rows |-> <<>>, row_count |-> 0, query_hash |-> <<>>]

NoCall == [op |-> "none", query |-> <<>>, events |-> <<>>, outcome |-> "none",
           result |-> NoResult]

NoTables == [n |-> 0, a |-> 0, b |-> 0, z |-> 0]

SchemaIdle == schema_cache = <<>> /\ analyses = <<>> /\ busy = 0

DbIdle ==
    /\ dbTable = [columns |-> <<>>, rows |-> <<>>]
    /\ dbSchema = NoTables
    /\ SchemaIdle
    /\ initialized = FALSE
    /\ pool = "None"
    /\ query_cache = <<>>
    /\ lastCall = NoCall

\* the context manager and the scanner before any of their operations
CtxIdle ==
    /\ active = <<>>
    /\ current = None
    /\ disk = <<>>
    /\ scan_cache = <<>>
    /\ rel_cache = <<>>
    /\ scan_calls = <<>>
    /\ scan_file = <<>>
    /\ database_connector = "DatabaseConnector"
    /\ db_calls = <<>>

\* the security filtering loop of QueryExecutor.execute_query
FilterRows(columns, rows) ==
    [r \in 1..Len(rows) |->
        [i \in 1..Len(rows[r]) |-> mask_sensitive_data(columns[i], rows[r][i])]]

Put(f, k, v) == [x \in DOMAIN f \cup {k} |-> IF x = k THEN v ELSE f[x]]

\* QueryExecutor.execute_query on pool p: the outcomes it can have; each is the sequence
\* of steps taken, how the call ended, the result and the cache afterwards.  Acquiring a
\* connection fails when the server is unreachable and running the statement fails when
\* the server rejects it: both are choices of the environment.
execute_query_on(cache, query, parameters, use_cache, p) ==
    LET query_hash == <<query, parameters>>
        t == Fetch(query)
        result == [columns |-> t.columns,
                   rows |-> FilterRows(t.columns, t.rows),
                   row_count |-> Len(t.rows),
                   query_hash |-> query_hash]
        Out(ev, oc, res, c) == [events |-> ev, outcome |-> oc, result |-> res, cache |-> c]
    IN  IF ~validate_query(query)
        THEN {Out(<<"reject">>, "rejected", NoResult, cache)}
        ELSE IF /\ use_cache
                /\ query_hash \in DOMAIN cache
                /\ now - cache[query_hash].time < QUERY_CACHE_TTL
        THEN {Out(<<"cache_hit">>, "ok", cache[query_hash].result, cache)}
        ELSE IF p = "None"
        THEN {Out(<<"pool_missing">>, "error", NoResult, cache)}
        ELSE {Out(<<"acquire_failed">>, "error", NoResult, cache),
              Out(<<"acquire", "execute", "release">>, "error", NoResult, cache),
              IF use_cache
              THEN Out(<<"acquire", "execute", "cache_store", "release">>, "ok", result,
                       Put(cache, query_hash, [result |-> result, time |-> now]))
              ELSE Out(<<"acquire", "execute", "release">>, "ok", result, cache)}

execute_query(query, parameters, use_cache, p) ==
    execute_query_on(query_cache, query, parameters, use_cache, p)

\* QueryExecutor.execute_query called on the executor itself
ExecutorExecuteQuery ==
    \E query \in ExecQueries, parameters \in QueryParams, use_cache \in BOOLEAN :
    \E o \in execute_query(query, parameters, use_cache, pool) :
        /\ query_cache' = o.cache
        /\ lastCall' = [op |-> "executor.execute_query", query |-> query,
                        events |-> o.events, outcome |-> o.outcome, result |-> o.result]
        /\ UNCHANGED <<pureVars, now, ctxVars, dbTable, dbSchema, schemaVars, initialized, pool,
                       scanVars>>

\* DatabaseConnector.initialize with ConnectionPool.initialize: the outcomes it can
\* have; each is the steps taken, whether it raised, and the pool afterwards.  Creating
\* the session pool opens connections and fails when the server is unreachable.
initialize ==
    IF initialized
    THEN {[events |-> <<>>, raised |-> FALSE, pool |-> pool]}
    ELSE {[events |-> <<"pool_init">>, raised |-> FALSE, pool |-> "SessionPool"],
          [events |-> <<"pool_init">>, raised |-> TRUE, pool |-> pool]}

\* DatabaseConnector.execute_query(query, parameters): the outcomes it can have; each
\* is the steps taken, how the call ended, the result and the connector afterwards.
\* The executor is called with the two arguments, so with use_cache at its default.
connector_execute_query(query, parameters) ==
    UNION { IF init.raised
            THEN {[events |-> init.events, outcome |-> "error", result |-> NoResult,
                   initialized |-> initialized, pool |-> pool, cache |-> query_cache]}
            ELSE {[events |-> init.events \o o.events, outcome |-> o.outcome,
                   result |-> o.result, initialized |-> TRUE, pool |-> init.pool,
                   cache |-> o.cache] :
                     o \in execute_query(query, parameters, TRUE, init.pool)} :
            init \in initialize }

ConnectorExecuteQueryOf(queries) ==
    \E query \in queries, parameters \in QueryParams :
    \E o \in connector_execute_query(query, parameters) :
        /\ initialized' = o.initialized
        /\ pool' = o.pool
        /\ query_cache' = o.cache
        /\ lastCall' = [op |-> "execute_query", query |-> query, events |-> o.events,
                        outcome |-> o.outcome, result |-> o.result]
        /\ UNCHANGED <<pureVars, now, ctxVars, dbTable, dbSchema, schemaVars, scanVars>>

ConnectorExecuteQuery == ConnectorExecuteQueryOf(ExecQueries)

\* DatabaseConnector.test_connection: the outcomes it can have; each is the value
\* returned, the steps taken, the result of the probe and the connector afterwards
test_connection ==
    UNION { IF init.raised
            THEN {[ret |-> FALSE, events |-> init.events, result |-> NoResult,
                   initialized |-> initialized, pool |-> pool, cache |-> query_cache]}
            ELSE {[ret |-> o.outcome = "ok" /\ o.result.row_count > 0,
                   events |-> init.events \o o.events, result |-> o.result,
                   initialized |-> TRUE, pool |-> init.pool, cache |-> o.cache] :
                     o \in execute_query(Q_DUAL, NoParams, FALSE, init.pool)} :
            init \in initialize }

TestConnection ==
    \E t \in test_connection :
        /\ initialized' = t.initialized
        /\ pool' = t.pool
        /\ query_cache' = t.cache
        /\ lastCall' = [op |-> "test_connection", query |-> Q_DUAL, events |-> t.events,
                        outcome |-> IF t.ret THEN "True" ELSE "False",
                        result |-> t.result]
        /\ UNCHANGED <<pureVars, now, ctxVars, dbTable, dbSchema, schemaVars, scanVars>>

\* time passes: the time a cached query result lives
TickDb ==
    /\ now + QUERY_CACHE_TTL <= MaxTtlSpans * QUERY_CACHE_TTL
    /\ now' = now + QUERY_CACHE_TTL
    /\ UNCHANGED <<pureVars, dbVars, ctxVars, scanVars>>

InitDb ==
    /\ ValidateIdle
    /\ MaskIdle
    /\ now = 0
    /\ dbTable \in Tables
    /\ dbSchema = NoTables
    /\ initialized = FALSE
    /\ pool = "None"
    /\ query_cache = <<>>
    /\ lastCall = NoCall
    /\ SchemaIdle
    /\ CtxIdle
    /\ RankIdle

NextDb ==
    \/ ExecutorExecuteQuery
    \/ ConnectorExecuteQuery
    \/ TestConnection
    \/ TickDb

SpecDb == InitDb /\ [][NextDb]_vars

(***************************************************************************)
(* ContextRelevanceAnalyzer: keywords, technologies, repository relevance   *)
(*                                                                         *)
(* A text is a sequence of words and a word a sequence of characters; the  *)
(* words of a text are separated by single blanks.                         *)
(***************************************************************************)
RECURSIVE Join(_)
Join(words) ==
    IF words = <<>> THEN <<>>
    ELSE IF Len(words) = 1 THEN words[1]
    ELSE words[1] \o <<" ">> \o Join(Tail(words))

Range(s) == {s[i] : i \in 1..Len(s)}

\* sum(1 for x in s if P(x))
Count(s, P(_)) == Cardinality({i \in 1..Len(s) : P(s[i])})

stop_words == {
    <<"t", "h", "e">>, <<"a">>, <<"a", "n">>, <<"a", "n", "d">>,
    <<"o", "r">>, <<"b", "u", "t">>, <<"i", "n">>, <<"o", "n">>,
    <<"a", "t">>, <<"t", "o">>, <<"f", "o", "r">>, <<"o", "f">>,
    <<"w", "i", "t", "h">>, <<"b", "y">>, <<"f", "r", "o", "m">>, <<"i", "s">>,
    <<"a", "r", "e">>, <<"w", "a", "s">>, <<"w", "e", "r", "e">>, <<"b", "e">>,
    <<"b", "e", "e", "n">>, <<"h", "a", "v", "e">>, <<"h", "a", "s">>, <<"h", "a", "d">>,
    <<"d", "o">>, <<"d", "o", "e", "s">>, <<"d", "i", "d">>, <<"w", "i", "l", "l">>,
    <<"w", "o", "u", "l", "d">>, <<"c", "o", "u", "l", "d">>, <<"s", "h", "o", "u", "l", "d">>,
    <<"m", "a", "y">>,
    <<"m", "i", "g", "h", "t">>, <<"m", "u", "s", "t">>, <<"c", "a", "n">>, <<"t", "h", "i", "s">>,
    <<"t", "h", "a", "t">>, <<"t", "h", "e", "s", "e">>, <<"t", "h", "o", "s", "e">>, <<"i">>,
    <<"y", "o", "u">>, <<"h", "e">>, <<"s", "h", "e">>, <<"i", "t">>,
    <<"w", "e">>, <<"t", "h", "e", "y">>, <<"m", "e">>, <<"h", "i", "m">>,
    <<"h", "e", "r">>, <<"u", "s">>, <<"t", "h", "e", "m">>, <<"m", "y">>,
    <<"y", "o", "u", "r">>, <<"h", "i", "s">>, <<"o", "u", "r">>, <<"t", "h", "e", "i", "r">>,
    <<"w", "h", "a", "t">>, <<"w", "h", "e", "n">>, <<"w", "h", "e", "r", "e">>, <<"w", "h", "y">>,
    <<"h", "o", "w">>, <<"w", "h", "o">>, <<"w", "h", "i", "c", "h">> }

TECHNOLOGY_KEYWORDS == <<
    [tech |-> <<"j", "a", "v", "a">>,
     keywords |-> <<
        <<"j", "a", "v", "a">>,
        <<"s", "p", "r", "i", "n", "g">>,
        <<"m", "a", "v", "e", "n">>,
        <<"g", "r", "a", "d", "l", "e">>,
        <<"j", "p", "a">>,
        <<"h", "i", "b", "e", "r", "n", "a", "t", "e">> >>],
    [tech |-> <<"j", "a", "v", "a", "s", "c", "r", "i", "p", "t">>,
     keywords |-> <<
        <<"j", "a", "v", "a", "s", "c", "r", "i", "p", "t">>,
        <<"j", "s">>,
        <<"n", "o", "d", "e">>,
        <<"n", "p", "m">>,
        <<"r", "e", "a", "c", "t">>,
        <<"a", "n", "g", "u", "l", "a", "r">>,
        <<"v", "u", "e">> >>],
    [tech |-> <<"t", "y", "p", "e", "s", "c", "r", "i", "p", "t">>,
     keywords |-> <<
        <<"t", "y", "p", "e", "s", "c", "r", "i", "p", "t">>,
        <<"t", "s">>,
        <<"a", "n", "g", "u", "l", "a", "r">>,
        <<"r", "e", "a", "c", "t">> >>],
    [tech |-> <<"p", "y", "t", "h", "o", "n">>,
     keywords |-> <<
        <<"p", "y", "t", "h", "o", "n">>,
        <<"d", "j", "a", "n", "g", "o">>,
        <<"f", "l", "a", "s", "k">>,
        <<"p", "i", "p">>,
        <<"f", "a", "s", "t", "a", "p", "i">> >>],
    [tech |-> <<"d", "a", "t", "a", "b", "a", "s", "e">>,
     keywords |-> <<
        <<"d", "a", "t", "a", "b", "a", "s", "e">>,
        <<"s", "q", "l">>,
        <<"o", "r", "a", "c", "l", "e">>,
        <<"m", "y", "s", "q", "l">>,
        <<"p", "o", "s", "t", "g", "r", "e", "s">>,
        <<"t", "a", "b", "l", "e">>,
        <<"s", "c", "h", "e", "m", "a">> >>],
    [tech |-> <<"a", "p", "i">>,
     keywords |-> <<
        <<"a", "p", "i">>,
        <<"r", "e", "s", "t">>,
        <<"g", "r", "a", "p", "h", "q", "l">>,
        <<"e", "n", "d", "p", "o", "i", "n", "t">>,
        <<"s", "e", "r", "v", "i", "c", "e">> >>],
    [tech |-> <<"f", "r", "o", "n", "t", "e", "n", "d">>,
     keywords |-> <<
        <<"f", "r", "o", "n", "t", "e", "n", "d">>,
        <<"u", "i">>,
        <<"c", "o", "m", "p", "o", "n", "e", "n", "t">>,
        <<"c", "s", "s">>,
        <<"h", "t", "m", "l">>,
        <<"a", "n", "g", "u", "l", "a", "r">>,
        <<"r", "e", "a", "c", "t">> >>],
    [tech |-> <<"b", "a", "c", "k", "e", "n", "d">>,
     keywords |-> <<
        <<"b", "a", "c", "k", "e", "n", "d">>,
        <<"s", "e", "r", "v", "i", "c", "e">>,
        <<"a", "p", "i">>,
        <<"d", "a", "t", "a", "b", "a", "s", "e">>,
        <<"s", "e", "r", "v", "e", "r">> >>] >>

\* re.findall(r'\b\w+\b', text.lower()) without the stop words and the short words
extract_keywords(text) ==
    LET words == [i \in 1..Len(text) |-> Lower(text[i])]
        Keep(word) == word \notin stop_words /\ Len(word) > 2
    IN  SelectSeq(words, Keep)

identify_technologies(text) ==
    LET text_lower == Lower(Join(text))
        Mentioned(cat) ==
            \E k \in 1..Len(cat.keywords) : Contains(text_lower, cat.keywords[k])
        cats == SelectSeq(TECHNOLOGY_KEYWORDS, Mentioned)
    IN  [i \in 1..Len(cats) |-> cats[i].tech]

TechKeywords(task_tech) ==
    IF \E i \in 1..Len(TECHNOLOGY_KEYWORDS) : TECHNOLOGY_KEYWORDS[i].tech = task_tech
    THEN (CHOOSE c \in Range(TECHNOLOGY_KEYWORDS) : c.tech = task_tech).keywords
    ELSE <<>>

\* scores are kept in thousandths: 1000 stands for 1.0
\* alignments / len(task_technologies), times 1.5, in thousandths of a point
calculate_tech_alignment(repo, task_technologies) ==
    IF task_technologies = <<>> THEN 0
    ELSE LET repo_tech_indicators == repo.languages \o repo.frameworks
             Aligned(task_tech) ==
                 \E k \in Range(TechKeywords(task_tech)) :
                     \E ind \in Range(repo_tech_indicators) : Contains(Lower(ind), k)
             alignments == Count(task_technologies, Aligned)
         IN  (alignments * 1500) \div Len(task_technologies)

\* the points that _calculate_repository_relevance adds to score, one field per term
relevance_points(repo, task_keywords, task_technologies) ==
    LET repo_name_lower == Lower(repo.name)
        InName(keyword) == Contains(repo_name_lower, keyword)
        name_matches == Count(task_keywords, InName)
        InTech(lang) == Lower(lang) \in Range(task_technologies)
        language_matches == Count(repo.languages, InTech)
        InKeywords(fw) == Lower(fw) \in Range(task_keywords)
        framework_matches == Count(repo.frameworks, InKeywords)
    IN  [name |-> Min(3000, name_matches * 1000),
         primary_language |-> IF InTech(repo.primary_language) THEN 2000 ELSE 0,
         languages |-> Min(1000, language_matches * 500),
         frameworks |-> Min(2000, framework_matches * 700),
         size |-> IF repo.file_count > 100 THEN 500
                  ELSE IF repo.file_count > 50 THEN 300 ELSE 0,
         recency |-> IF repo.git_info # None
                     THEN LET days_since_commit ==
                                  (now - repo.git_info.last_commit_date.dt) \div 86400
                          IN  IF days_since_commit < 30 THEN 500
                              ELSE IF days_since_commit < 90 THEN 300 ELSE 0
                     ELSE 0,
         alignment |-> calculate_tech_alignment(repo, task_technologies)]

TotalPoints(points) ==
    points.name + points.primary_language + points.languages + points.frameworks
        + points.size + points.recency + points.alignment

calculate_repository_relevance_unclamped(repo, task_keywords, task_technologies) ==
    TotalPoints(relevance_points(repo, task_keywords, task_technologies)) \div 10

calculate_repository_relevance(repo, task_keywords, task_technologies) ==
    LET score == TotalPoints(relevance_points(repo, task_keywords, task_technologies))
    IN  Min(1000, score \div 10)

(***************************************************************************)
(* Timestamps: a datetime object and its ISO text are different values      *)
(***************************************************************************)
Dt(t) == [dt |-> t]
IsDt(x) == DOMAIN x = {"dt"}

\* datetime.isoformat()
IsoFormat(d) == [iso |-> d.dt]

\* datetime.fromisoformat(), which takes a str and nothing else
FromIsoFormat(s) == [dt |-> s.iso]

(***************************************************************************)
(* RepositoryScanner                                                       *)
(***************************************************************************)
SCAN_CACHE_TTL == 3600

\* the repository roots that can exist under the base path
AUTH_SERVICE == <<"a", "u", "t", "h", "-", "s", "e", "r", "v", "i", "c", "e">>
GHOST == <<"g", "h", "o", "s", "t">>

RepoPaths == { [parent |-> "repos", name |-> AUTH_SERVICE] }

\* what _analyze_repository finds in a root.  GitAnalyzer.analyze_git_info turns every
\* blank of git's "%ci" date into "T", so fromisoformat rejects the text and git_info
\* is None for every repository.
analyze_repository(repo_path) ==
    [cls |-> "RepositoryInfo",
     name |-> repo_path.name,
     path |-> repo_path,
     primary_language |-> <<"j", "a", "v", "a">>,
     languages |-> <<<<"j", "a", "v", "a">>, <<"x", "m", "l">>>>,
     frameworks |-> <<<<"s", "p", "r", "i", "n", "g", "-", "b", "o", "o", "t">>>>,
     file_count |-> 120,
     git_info |-> None,
     last_scanned |-> Dt(now)]

\* RepositoryScanner._scan_single_repository for one root: the cache entry afterwards
\* (Absent when there is none)
Absent == [kind |-> "absent"]

\* the test at the head of _scan_single_repository: the entry is served from the cache
cache_fresh(cache, repo_path, force_rescan) ==
    /\ ~force_rescan
    /\ repo_path \in DOMAIN cache
    /\ now - cache[repo_path].last_scanned.dt < SCAN_CACHE_TTL

scan_single_repository(cache, repo_path, force_rescan, fails) ==
    IF cache_fresh(cache, repo_path, force_rescan)
    THEN cache[repo_path]
    ELSE IF fails
    THEN (IF repo_path \in DOMAIN cache THEN cache[repo_path] ELSE Absent)
    ELSE analyze_repository(repo_path)

\* RepositoryScanner._save_cache: the file written from the cache
save_cache(cache) ==
    [p \in DOMAIN cache |->
        [cache[p] EXCEPT !.cls = "dict", !.last_scanned = IsoFormat(@)]]

\* RepositoryScanner._load_cache: the cache built from the file
load_cache(file) ==
    [p \in DOMAIN file |->
        [file[p] EXCEPT !.cls = "RepositoryInfo", !.last_scanned = FromIsoFormat(@)]]

\* RepositoryScanner.scan_repositories as one step, for a call that no other call
\* overlaps: the roots found under the base path and the roots whose analysis fails
\* are chosen by the environment
\* a scan that keeps the entries of the roots it found and drops the others
scanned_cache_pruning(cache, repo_paths, force_rescan, failing) ==
    LET entry(p) == scan_single_repository(cache, p, force_rescan, p \in failing)
    IN  [p \in {q \in repo_paths : entry(q) # Absent} |-> entry(p)]

\* the cache after the single scans of the roots found: an entry is written for every
\* root analysed, and nothing else is touched
scanned_cache(cache, repo_paths, force_rescan, failing) ==
    LET entry(p) == scan_single_repository(cache, p, force_rescan, p \in failing)
        keys == DOMAIN cache \cup {p \in repo_paths : entry(p) # Absent}
    IN  [p \in keys |-> IF p \in repo_paths THEN entry(p) ELSE cache[p]]

ScanRepositoriesOf(roots) ==
    \E force_rescan \in BOOLEAN, repo_paths \in SUBSET roots :
    \E failing \in SUBSET repo_paths :
        LET cache == scanned_cache(scan_cache, repo_paths, force_rescan, failing)
        IN  /\ scan_calls = <<>>
            /\ scan_cache' = cache
            /\ scan_file' = save_cache(cache)
            /\ UNCHANGED <<pureVars, now, dbVars, active, current, disk, rel_cache, scan_calls,
                           database_connector, db_calls>>

ScanRepositories == ScanRepositoriesOf(RepoPaths)

(***************************************************************************)
(* RepositoryScanner.scan_repositories, step by step.  A call discovers    *)
(* the roots and makes one single scan per root; a single scan waits for   *)
(* the call's semaphore, analyses the root in a worker thread of its own,  *)
(* and writes the cache when its coroutine resumes on the event loop.      *)
(***************************************************************************)
MaxRoots == 2
MaxCalls == 2
MaxHalfHours == 2

\* asyncio.Semaphore(5), made anew by every call of scan_repositories
SCAN_CONCURRENCY == 5

Digit == <<"1", "2", "3", "4", "5", "6", "7", "8", "9">>
ScanRoot(i) == [parent |-> "repos", name |-> <<"r", Digit[i]>>]
FirstRoots(n) == { ScanRoot(i) : i \in 1..n }

\* _discover_repositories: the roots a call can find under the base path
Discoveries == { FirstRoots(n) : n \in 0..MaxRoots }

\* a worker thread that has not returned, and one whose analysis raised
Analysing == [kind |-> "analysing"]
Failure == [kind |-> "failure"]

Drop(f, k) == [x \in DOMAIN f \ {k} |-> f[x]]

\* the head of scan_repositories: a fresh semaphore and one task per root.  `failed'
\* records the roots whose single scan returned None.
new_scan(force_rescan, repo_paths) ==
    [force_rescan |-> force_rescan,
     repo_paths |-> repo_paths,
     waiting |-> repo_paths,
     running |-> <<>>,
     results |-> <<>>,
     failed |-> {}]

\* the single scans that hold the semaphore of a call
in_flight(call) == DOMAIN call.running

\* scan_with_semaphore up to the first await of _scan_single_repository: a fresh
\* cache entry is returned at once, anything else starts the worker thread
begin_single_scan_analyses(call, cache, repo_path) ==
    [call |-> [call EXCEPT !.waiting = @ \ {repo_path},
                           !.running = Put(@, repo_path, Analysing)],
     cache |-> cache]

begin_single_scan(call, cache, repo_path) ==
    IF cache_fresh(cache, repo_path, call.force_rescan)
    THEN [call |-> [call EXCEPT !.waiting = @ \ {repo_path},
                                !.results = Append(@, cache[repo_path])],
          cache |-> cache]
    ELSE [call |-> [call EXCEPT !.waiting = @ \ {repo_path},
                                !.running = Put(@, repo_path, Analysing)],
          cache |-> cache]

\* _scan_single_repository after run_in_executor: the cache write and the return, or
\* the except branch; the semaphore is released and the loop over as_completed
\* appends what is not None
resume_single_scan_aborts(call, cache, repo_path) ==
    LET info == call.running[repo_path]
    IN  IF info = Failure
        THEN [call |-> [call EXCEPT !.waiting = {}, !.running = <<>>,
                                    !.failed = @ \cup {repo_path}],
              cache |-> cache]
        ELSE [call |-> [call EXCEPT !.running = Drop(@, repo_path),
                                    !.results = Append(@, info)],
              cache |-> Put(cache, repo_path, info)]

resume_single_scan(call, cache, repo_path) ==
    LET info == call.running[repo_path]
    IN  IF info = Failure
        THEN [call |-> [call EXCEPT !.running = Drop(@, repo_path),
                                    !.failed = @ \cup {repo_path}],
              cache |-> cache]
        ELSE [call |-> [call EXCEPT !.running = Drop(@, repo_path),
                                    !.results = Append(@, info)],
              cache |-> Put(cache, repo_path, info)]

\* the tail of scan_repositories: _save_cache and the list returned
finish_scan(call, cache) ==
    [ret |-> call.results, file |-> save_cache(cache)]

StartScan(ids, discover) ==
    \E c \in ids \ DOMAIN scan_calls, force_rescan \in BOOLEAN :
        \E repo_paths \in discover[c] :
            /\ scan_calls' = Put(scan_calls, c, new_scan(force_rescan, repo_paths))
            /\ UNCHANGED <<pureVars, now, dbVars, ctxVars, scan_file>>

BeginSingleScan ==
    \E c \in DOMAIN scan_calls :
        \E repo_path \in scan_calls[c].waiting :
            /\ Cardinality(in_flight(scan_calls[c])) < SCAN_CONCURRENCY
            /\ LET r == begin_single_scan(scan_calls[c], scan_cache, repo_path)
               IN  /\ scan_calls' = [scan_calls EXCEPT ![c] = r.call]
                   /\ scan_cache' = r.cache
            /\ UNCHANGED <<pureVars, now, dbVars, active, current, disk, rel_cache,
                           scan_file, database_connector, db_calls>>

\* the worker thread reaches the last statement of _analyze_repository, which reads
\* the clock, or raises; the threads of different single scans hand their results to
\* the event loop in an order that the order of their clock readings does not fix
AnalysisDone(outcomes) ==
    \E c \in DOMAIN scan_calls :
        \E repo_path \in DOMAIN scan_calls[c].running, fails \in outcomes :
            /\ scan_calls[c].running[repo_path] = Analysing
            /\ scan_calls' = [scan_calls EXCEPT ![c].running[repo_path] =
                                  IF fails THEN Failure
                                  ELSE analyze_repository(repo_path)]
            /\ UNCHANGED <<pureVars, now, dbVars, ctxVars, scan_file>>

ResumeSingleScan ==
    \E c \in DOMAIN scan_calls :
        \E repo_path \in DOMAIN scan_calls[c].running :
            /\ scan_calls[c].running[repo_path] # Analysing
            /\ LET r == resume_single_scan(scan_calls[c], scan_cache, repo_path)
               IN  /\ scan_calls' = [scan_calls EXCEPT ![c] = r.call]
                   /\ scan_cache' = r.cache
            /\ UNCHANGED <<pureVars, now, dbVars, active, current, disk, rel_cache,
                           scan_file, database_connector, db_calls>>

FinishScan ==
    \E c \in DOMAIN scan_calls :
        /\ scan_calls[c].waiting = {}
        /\ scan_calls[c].running = <<>>
        /\ scan_file' = finish_scan(scan_calls[c], scan_cache).file
        /\ scan_calls' = Drop(scan_calls, c)
        /\ UNCHANGED <<pureVars, now, dbVars, ctxVars>>

TickScan ==
    /\ now + 1800 <= MaxHalfHours * 1800
    /\ now' = now + 1800
    /\ UNCHANGED <<pureVars, dbVars, ctxVars, scanVars>>

(***************************************************************************)
(* The read operations of the scanner.  Each returns its value and the     *)
(* cache and the calls under way as it leaves them.                        *)
(***************************************************************************)
MAIN_JAVA == <<"M", "a", "i", "n", ".", "j", "a", "v", "a">>
NOTES_TXT == <<"n", "o", "t", "e", "s", ".", "t", "x", "t">>

\* the files under a root, each a sequence of lines
SourceTree(repo_path) ==
    [f \in {MAIN_JAVA, NOTES_TXT} |->
        IF f = MAIN_JAVA THEN << <<"k", "e", "y", "(", ")">>, <<"}">> >>
        ELSE << <<"k", "e", "y">> >>]

FilePaths == {MAIN_JAVA, <<"n", "o">>}
Patterns == { <<"K", "E", "Y">>, <<"p", "i", "n">> }
ReadNames == { ScanRoot(1).name, ScanRoot(2).name, GHOST }
ReadNameLists == { <<>>, <<GHOST>>, <<GHOST, ScanRoot(1).name>> }

\* os.path.splitext(file)[1] in source_extensions
is_source_file(file_path) ==
    /\ Len(file_path) > 5
    /\ SubSeq(file_path, Len(file_path) - 4, Len(file_path)) = <<".", "j", "a", "v", "a">>

\* AgentTools.get_repository_list, which reads scanner._cache.values()
get_repository_list(cache, calls) ==
    [ret |-> { [name |-> cache[p].name, path |-> cache[p].path,
                primary_language |-> cache[p].primary_language,
                languages |-> cache[p].languages,
                frameworks |-> cache[p].frameworks,
                file_count |-> cache[p].file_count] : p \in DOMAIN cache },
     cache |-> cache,
     calls |-> calls]

get_repository_by_name(cache, calls, name) ==
    LET found == { p \in DOMAIN cache : cache[p].name = name }
    IN  [ret |-> IF found = {} THEN None ELSE cache[CHOOSE p \in found : TRUE],
         cache |-> cache,
         calls |-> calls]

get_file_content(cache, calls, repo_name, file_path) ==
    LET repo_info == get_repository_by_name(cache, calls, repo_name).ret
    IN  [ret |-> IF repo_info = None THEN None
                 ELSE IF file_path \in DOMAIN SourceTree(repo_info.path)
                 THEN SourceTree(repo_info.path)[file_path]
                 ELSE None,
         cache |-> cache,
         calls |-> calls]

\* the matches of _search_in_repository; their order, that of os.walk, is left out
search_in_repository(pattern, repo_info) ==
    LET tree == SourceTree(repo_info.path)
    IN  { [repository |-> repo_info.name, file_path |-> f, line_number |-> n,
           line_content |-> tree[f][n], pattern |-> pattern] :
            <<f, n>> \in { x \in (DOMAIN tree) \X (1..2) :
                             /\ is_source_file(x[1])
                             /\ x[2] <= Len(tree[x[1]])
                             /\ Contains(Lower(tree[x[1]][x[2]]), Lower(pattern)) } }

search_code_patterns_everywhere(cache, calls, pattern, repo_names) ==
    [ret |-> UNION { search_in_repository(pattern, cache[p]) : p \in DOMAIN cache },
     cache |-> cache,
     calls |-> calls]

search_code_patterns(cache, calls, pattern, repo_names) ==
    LET target_repos ==
            IF repo_names # <<>>
            THEN { p \in DOMAIN cache : cache[p].name \in Range(repo_names) }
            ELSE DOMAIN cache
    IN  [ret |-> UNION { search_in_repository(pattern, cache[p]) : p \in target_repos },
         cache |-> cache,
         calls |-> calls]

ReadStep(r) ==
    /\ scan_cache' = r.cache
    /\ scan_calls' = r.calls
    /\ UNCHANGED <<pureVars, now, dbVars, active, current, disk, rel_cache, scan_file,
                   database_connector, db_calls>>

GetRepositoryList == ReadStep(get_repository_list(scan_cache, scan_calls))

GetRepositoryByNameOf(names) ==
    \E name \in names : ReadStep(get_repository_by_name(scan_cache, scan_calls, name))

GetRepositoryByName == GetRepositoryByNameOf(ReadNames)

GetFileContentOf(names) ==
    \E repo_name \in names, file_path \in FilePaths :
        ReadStep(get_file_content(scan_cache, scan_calls, repo_name, file_path))

GetFileContent == GetFileContentOf(ReadNames)

SearchCodePatternsOf(name_lists) ==
    \E pattern \in Patterns, repo_names \in name_lists :
        ReadStep(search_code_patterns(scan_cache, scan_calls, pattern, repo_names))

SearchCodePatterns == SearchCodePatternsOf(ReadNameLists)

\* one call of scan_repositories at a time, with the read operations
BatchDiscoveries == [c \in {1} |-> Discoveries]

InitScan ==
    /\ ValidateIdle /\ MaskIdle /\ RankIdle /\ DbIdle /\ CtxIdle
    /\ now = 0

NextScanBatch ==
    \/ StartScan({1}, BatchDiscoveries)
    \/ BeginSingleScan
    \/ AnalysisDone(BOOLEAN)
    \/ ResumeSingleScan
    \/ FinishScan
    \/ TickScan
    \/ GetRepositoryList
    \/ GetRepositoryByName
    \/ GetFileContent
    \/ SearchCodePatterns

SpecScanBatch == InitScan /\ [][NextScanBatch]_vars

\* two calls of scan_repositories that overlap: the first finds one root more than
\* its semaphore admits, the second finds one root
CeilingDiscoveries ==
    [c \in 1..MaxCalls |-> IF c = 1 THEN {FirstRoots(SCAN_CONCURRENCY + 1)}
                           ELSE {FirstRoots(1)}]

NextScanCeiling ==
    \/ StartScan(1..MaxCalls, CeilingDiscoveries)
    \/ BeginSingleScan
    \/ AnalysisDone({FALSE})
    \/ ResumeSingleScan
    \/ FinishScan

SpecScanCeiling == InitScan /\ [][NextScanCeiling]_vars

\* calls of scan_repositories that overlap on the same roots while the clock runs
OverlapDiscoveries == [c \in 1..MaxCalls |-> Discoveries]

NextScanOverlap ==
    \/ StartScan(1..MaxCalls, OverlapDiscoveries)
    \/ BeginSingleScan
    \/ AnalysisDone(BOOLEAN)
    \/ ResumeSingleScan
    \/ FinishScan
    \/ TickScan

SpecScanOverlap == InitScan /\ [][NextScanOverlap]_vars

(***************************************************************************)
(* ContextRelevanceAnalyzer.analyze_task_relevance                         *)
(***************************************************************************)
RELEVANCE_CACHE_TTL == 1800

\* the scores returned and the analyzer's cache afterwards
analyze_task_relevance(task_description, repositories) ==
    IF /\ task_description \in DOMAIN rel_cache
       /\ now - rel_cache[task_description].time < RELEVANCE_CACHE_TTL
    THEN [scores |-> rel_cache[task_description].scores, cache |-> rel_cache]
    ELSE LET task_keywords == extract_keywords(task_description)
             task_technologies == identify_technologies(task_description)
             names == {r.name : r \in repositories}
             relevance_scores ==
                 [n \in names |->
                     calculate_repository_relevance(
                         CHOOSE r \in repositories : r.name = n,
                         task_keywords, task_technologies)]
         IN  [scores |-> relevance_scores,
              cache |-> Put(rel_cache, task_description,
                            [scores |-> relevance_scores, time |-> now])]

(***************************************************************************)
(* ContextManager                                                          *)
(***************************************************************************)
TaskIds == {"T1"}
D_AUTH == << <<"a", "d", "d">>, <<"a", "u", "t", "h">>, <<"t", "o", "k", "e", "n">>,
            <<"t", "a", "b", "l", "e">> >>
D_UI == << <<"f", "i", "x">>, <<"t", "h", "e">>, <<"u", "i">> >>

Descriptions == {D_AUTH}
TaskTypes == {"feature"}
\* the steps a caller passes: the three of the workflow, and a string that is none of them
StepInputs == {"questions", "answers", "card_generation", "review"}

\* the repository name lists a caller passes: known names, unknown names, both
NameLists == { <<>>,
               << AUTH_SERVICE >>,
               << AUTH_SERVICE, GHOST >>,
               << GHOST >> }

\* f"ctx_{task_id}_{int(datetime.now().timestamp())}"
ContextId(task_id) == [ctx |-> task_id, at |-> now]

\* an id no context ever had
GhostId == [ctx |-> "T0", at |-> 0]

\* ContextManager._serialize_context: whether it returns, and the JSON data.  asdict
\* raises on a dict (what a reloaded repository_info entry or schema_analysis is) and
\* datetime.fromisoformat raises on the datetime that a table's last_analyzed is.
Missing == [kind |-> "missing"]

serialize_context(context) ==
    LET rc == context.repository_context
        dc == context.database_context
        raises ==
            \/ /\ rc # None
               /\ \E n \in DOMAIN rc.repository_info :
                      rc.repository_info[n].cls # "RepositoryInfo"
            \/ /\ dc # None
               /\ dc.schema_analysis # None
               /\ \/ dc.schema_analysis.cls # "SchemaAnalysis"
                  \/ \E i \in 1..Len(dc.schema_analysis.tables) :
                         IsDt(dc.schema_analysis.tables[i].last_analyzed)
        repo_data ==
            [rc EXCEPT !.last_updated = IsoFormat(@),
                       !.repository_info =
                           [n \in DOMAIN @ |->
                               [@[n] EXCEPT !.cls = "dict",
                                            !.last_scanned = IsoFormat(@)]]]
        db_data ==
            [dc EXCEPT !.last_updated = IsoFormat(@),
                       !.schema_analysis =
                           IF @ = None THEN None
                           ELSE [@ EXCEPT !.cls = "dict",
                                          !.analysis_date = IsoFormat(@)]]
    IN  IF raises THEN [ok |-> FALSE, data |-> Missing]
        ELSE [ok |-> TRUE,
              data |-> [context_id |-> context.context_id,
                        created_at |-> IsoFormat(context.created_at),
                        last_accessed |-> IsoFormat(context.last_accessed),
                        task_context |->
                            [context.task_context EXCEPT !.created_at = IsoFormat(@)],
                        repository_context |-> IF rc = None THEN Missing ELSE repo_data,
                        database_context |-> IF dc = None THEN Missing ELSE db_data]]

\* ContextManager._deserialize_context: the nested repository and schema objects stay
\* the dicts that json.load made of them
deserialize_context(data) ==
    LET rd == data.repository_context
        dd == data.database_context
    IN  [task_context |-> [data.task_context EXCEPT !.created_at = FromIsoFormat(@)],
         repository_context |->
             IF rd = Missing THEN None
             ELSE [rd EXCEPT !.last_updated = FromIsoFormat(@),
                             !.repository_info =
                                 [n \in DOMAIN @ |->
                                     [@[n] EXCEPT !.last_scanned = FromIsoFormat(@)]]],
         database_context |->
             IF dd = Missing THEN None
             ELSE [dd EXCEPT !.last_updated = FromIsoFormat(@),
                             !.schema_analysis =
                                 IF @ = None THEN None
                                 ELSE [@ EXCEPT !.analysis_date = FromIsoFormat(@)]],
         context_id |-> data.context_id,
         created_at |-> FromIsoFormat(data.created_at),
         last_accessed |-> FromIsoFormat(data.last_accessed)]

\* ContextManager._persist_context: the durable records afterwards.  A failure to
\* serialize is logged and the record is left as it was.
persist_context(contexts, records, context_id) ==
    IF context_id \notin DOMAIN contexts THEN records
    ELSE LET s == serialize_context(contexts[context_id])
         IN  IF s.ok THEN Put(records, context_id, s.data) ELSE records

\* the WorkflowContext that create_task_context builds
new_workflow_context(context_id, task_id, task_description, task_type) ==
    [task_context |->
         [task_id |-> task_id,
          task_description |-> task_description,
          task_type |-> task_type,
          technologies |-> identify_technologies(task_description),
          keywords |-> extract_keywords(task_description),
          created_at |-> Dt(now),
          workflow_step |-> "questions"],
     repository_context |-> None,
     database_context |-> None,
     context_id |-> context_id,
     created_at |-> Dt(now),
     last_accessed |-> Dt(now)]

\* create_task_context without the assignment to _current_context_id
create_task_context_not_current(task_id, task_description, task_type) ==
    LET context_id == ContextId(task_id)
        contexts == Put(active, context_id,
                        new_workflow_context(context_id, task_id, task_description,
                                             task_type))
    IN  [ret |-> context_id,
         active |-> contexts,
         current |-> current,
         disk |-> persist_context(contexts, disk, context_id)]

\* ContextManager.create_task_context: the id returned and the state afterwards
create_task_context(task_id, task_description, task_type) ==
    LET context_id == ContextId(task_id)
        contexts == Put(active, context_id,
                        new_workflow_context(context_id, task_id, task_description,
                                             task_type))
    IN  [ret |-> context_id,
         active |-> contexts,
         current |-> context_id,
         disk |-> persist_context(contexts, disk, context_id)]

\* set_database_context keeps the WorkflowContext it found under its id in a local
\* variable across its awaits.  When the entries of `ids' leave the map or are
\* replaced there, the calls under way for them are left with the objects that
\* `contexts' held: objects that the map no longer leads to.
detach(calls, contexts, ids) ==
    [c \in DOMAIN calls |->
        IF calls[c].pc # "returned" /\ calls[c].linked /\ calls[c].context_id \in ids
        THEN [calls[c] EXCEPT !.linked = FALSE, !.obj = contexts[calls[c].context_id]]
        ELSE calls[c]]

CreateTaskContextOf(descriptions) ==
    \E task_id \in TaskIds, task_description \in descriptions, task_type \in TaskTypes :
        LET r == create_task_context(task_id, task_description, task_type)
        IN  /\ Cardinality(DOMAIN active \cup DOMAIN disk \cup {r.ret}) <= MaxContexts
            /\ active' = r.active
            /\ current' = r.current
            /\ disk' = r.disk
            /\ db_calls' = detach(db_calls, active, {r.ret} \cap DOMAIN active)
            /\ UNCHANGED <<pureVars, now, dbVars, scan_cache, rel_cache, scanVars,
                           database_connector>>

CreateTaskContext == CreateTaskContextOf(Descriptions)

\* the context ids a caller passes: the ids of the contexts there are, and one of none
IdInputs == DOMAIN active \cup DOMAIN disk \cup {GhostId}

\* the repositories and the names that set_repository_context reads from the scanner
available_repos == {scan_cache[p] : p \in DOMAIN scan_cache}
available_names == {repo.name : repo \in available_repos}

\* set_repository_context once the id and the names are accepted: the new repository
\* context is built, stored and persisted
store_repository_context(context_id, repository_names, auto_analyze_relevance) ==
    LET workflow_context == active[context_id]
        repository_info ==
            [n \in Range(repository_names) |->
                CHOOSE repo \in available_repos : repo.name = n]
        analysis == analyze_task_relevance(
                        workflow_context.task_context.task_description,
                        available_repos)
        relevance_scores ==
            IF auto_analyze_relevance
            THEN [n \in Range(repository_names) |->
                     IF n \in DOMAIN analysis.scores THEN analysis.scores[n] ELSE 0]
            ELSE <<>>
        repo_context ==
            [selected_repositories |-> repository_names,
             repository_info |-> repository_info,
             relevance_scores |-> relevance_scores,
             last_updated |-> Dt(now),
             task_keywords |-> workflow_context.task_context.keywords]
        contexts ==
            [active EXCEPT ![context_id].repository_context = repo_context,
                           ![context_id].last_accessed = Dt(now)]
    IN  [ret |-> TRUE,
         active |-> contexts,
         disk |-> persist_context(contexts, disk, context_id),
         rel_cache |-> IF auto_analyze_relevance THEN analysis.cache ELSE rel_cache]

\* set_repository_context that stores the names it knows before it reports the others
set_repository_context_partial(context_id, repository_names, auto_analyze_relevance) ==
    LET Known(n) == n \in available_names
        stored == store_repository_context(context_id,
                                           SelectSeq(repository_names, Known),
                                           auto_analyze_relevance)
    IN  IF context_id \notin DOMAIN active
        THEN [ret |-> FALSE, active |-> active, disk |-> disk, rel_cache |-> rel_cache]
        ELSE [stored EXCEPT !.ret = Range(repository_names) \subseteq available_names]

\* ContextManager.set_repository_context: the value returned and the state afterwards
set_repository_context(context_id, repository_names, auto_analyze_relevance) ==
    LET invalid_names == Range(repository_names) \ available_names
    IN  IF context_id \notin DOMAIN active \/ invalid_names # {}
        THEN [ret |-> FALSE, active |-> active, disk |-> disk, rel_cache |-> rel_cache]
        ELSE store_repository_context(context_id, repository_names,
                                      auto_analyze_relevance)

SetRepositoryContextWith(name_lists) ==
    \E context_id \in IdInputs, repository_names \in name_lists,
       auto_analyze_relevance \in BOOLEAN :
        LET r == set_repository_context(context_id, repository_names,
                                        auto_analyze_relevance)
        IN  /\ active' = r.active
            /\ disk' = r.disk
            /\ rel_cache' = r.rel_cache
            /\ UNCHANGED <<pureVars, now, dbVars, current, scan_cache, scanVars,
                           database_connector, db_calls>>

SetRepositoryContext == SetRepositoryContextWith(NameLists)

\* ContextManager.update_workflow_step: the value returned and the state afterwards
update_workflow_step(context_id, step) ==
    IF context_id \notin DOMAIN active
    THEN [ret |-> FALSE, active |-> active, disk |-> disk]
    ELSE LET contexts ==
                 [active EXCEPT ![context_id].task_context.workflow_step = step,
                                ![context_id].last_accessed = Dt(now)]
         IN  [ret |-> TRUE,
              active |-> contexts,
              disk |-> persist_context(contexts, disk, context_id)]

UpdateWorkflowStep ==
    \E context_id \in IdInputs, step \in StepInputs :
        LET r == update_workflow_step(context_id, step)
        IN  /\ active' = r.active
            /\ disk' = r.disk
            /\ UNCHANGED <<pureVars, now, dbVars, current, scan_cache, rel_cache, scanVars,
                           database_connector, db_calls>>

\* get_context that stamps every context in memory
get_context_touching_all(contexts, records, context_id) ==
    LET loaded ==
            IF context_id \in DOMAIN contexts \/ context_id \notin DOMAIN records
            THEN contexts
            ELSE Put(contexts, context_id, deserialize_context(records[context_id]))
        touched == [id \in DOMAIN loaded |-> [loaded[id] EXCEPT !.last_accessed = Dt(now)]]
    IN  [ret |-> IF context_id \in DOMAIN touched THEN touched[context_id] ELSE None,
         active |-> touched]

\* ContextManager.get_context with _load_context, on the contexts in memory and the
\* durable records given: the context returned (None when there is none) and the
\* contexts in memory afterwards
get_context(contexts, records, context_id) ==
    LET loaded ==
            IF context_id \in DOMAIN contexts
            THEN [contexts EXCEPT ![context_id].last_accessed = Dt(now)]
            ELSE IF context_id \in DOMAIN records
            THEN Put(contexts, context_id, deserialize_context(records[context_id]))
            ELSE contexts
    IN  [ret |-> IF context_id \in DOMAIN loaded THEN loaded[context_id] ELSE None,
         active |-> loaded]

GetContext ==
    \E context_id \in IdInputs :
        /\ active' = get_context(active, disk, context_id).active
        /\ UNCHANGED <<pureVars, now, dbVars, current, disk, scan_cache, rel_cache, scanVars,
                       database_connector, db_calls>>

\* ContextManager.get_current_context
get_current_context ==
    IF current # None THEN get_context(active, disk, current)
    ELSE [ret |-> None, active |-> active]

GetCurrentContext ==
    /\ active' = get_current_context.active
    /\ UNCHANGED <<pureVars, now, dbVars, current, disk, scan_cache, rel_cache, scanVars,
                   database_connector, db_calls>>

\* ContextManager.set_current_context
SetCurrentContext ==
    \E context_id \in IdInputs :
        /\ current' = IF context_id \in DOMAIN active THEN context_id ELSE current
        /\ UNCHANGED <<pureVars, now, dbVars, active, disk, scan_cache, rel_cache, scanVars,
                       database_connector, db_calls>>

\* the ages a caller passes to cleanup_old_contexts
MaxAgeHours == {0, 1}

\* ContextManager.cleanup_old_contexts: the count returned and the state afterwards

\* cleanup_old_contexts that also removes a context exactly as old as the threshold
cleanup_old_contexts_inclusive(max_age_hours) ==
    LET cutoff_time == now - max_age_hours * 3600
        contexts_to_remove ==
            {id \in DOMAIN active : active[id].last_accessed.dt <= cutoff_time}
    IN  [ret |-> Cardinality(contexts_to_remove),
         active |-> [id \in DOMAIN active \ contexts_to_remove |-> active[id]],
         disk |-> [id \in DOMAIN disk \ contexts_to_remove |-> disk[id]]]

cleanup_old_contexts(max_age_hours) ==
    LET cutoff_time == now - max_age_hours * 3600
        contexts_to_remove ==
            {id \in DOMAIN active : active[id].last_accessed.dt < cutoff_time}
    IN  [ret |-> Cardinality(contexts_to_remove),
         active |-> [id \in DOMAIN active \ contexts_to_remove |-> active[id]],
         disk |-> [id \in DOMAIN disk \ contexts_to_remove |-> disk[id]]]

CleanupOldContexts ==
    \E max_age_hours \in MaxAgeHours :
        LET r == cleanup_old_contexts(max_age_hours)
        IN  /\ active' = r.active
            /\ disk' = r.disk
            /\ db_calls' = detach(db_calls, active, DOMAIN active \ DOMAIN r.active)
            /\ UNCHANGED <<pureVars, now, dbVars, current, scan_cache, rel_cache, scanVars,
                           database_connector>>

\* the process is started again: ContextManager.__init__ with _load_persisted_contexts
\* loads every durable record; the analyzer's cache starts empty, the scanner loads
\* its cache file and the scans that were under way are gone
Restart ==
    /\ active' = [id \in DOMAIN disk |-> deserialize_context(disk[id])]
    /\ current' = None
    /\ rel_cache' = <<>>
    /\ scan_cache' = load_cache(scan_file)
    /\ scan_calls' = <<>>
    /\ scan_file' = scan_file
    /\ db_calls' = <<>>
    /\ UNCHANGED <<pureVars, now, dbVars, disk, database_connector>>

\* time passes: one hour
TickCtx ==
    /\ now + 3600 <= MaxHours * 3600
    /\ now' = now + 3600
    /\ UNCHANGED <<pureVars, dbVars, ctxVars, scanVars>>

InitCtx ==
    /\ ValidateIdle
    /\ MaskIdle
    /\ DbIdle
    /\ now = 0
    /\ CtxIdle
    /\ RankIdle

NextCtx ==
    \/ ScanRepositories
    \/ CreateTaskContext
    \/ SetRepositoryContext
    \/ UpdateWorkflowStep
    \/ GetContext
    \/ GetCurrentContext
    \/ SetCurrentContext
    \/ CleanupOldContexts
    \/ Restart
    \/ TickCtx

SpecCtx == InitCtx /\ [][NextCtx]_vars

\* the context manager over a scanner, without the steps and the cleanup
NextRepositoryContext ==
    \/ ScanRepositories
    \/ CreateTaskContext
    \/ SetRepositoryContext
    \/ GetContext
    \/ Restart
    \/ TickCtx

SpecRepositoryContext == InitCtx /\ [][NextRepositoryContext]_vars

(***************************************************************************)
(* ContextManager._identify_relevant_tables                                *)
(***************************************************************************)
MaxTables == 12

\* list.sort(key=lambda x: x[1], reverse=True): stable, highest score first
RECURSIVE SortByScore(_)
SortByScore(s) ==
    IF s = <<>> THEN <<>>
    ELSE LET x == Head(s)
             rest == SortByScore(Tail(s))
             above == Cardinality({i \in 1..Len(rest) : rest[i].score > x.score})
         IN  SubSeq(rest, 1, above) \o <<x>> \o SubSeq(rest, above + 1, Len(rest))

\* the score that _identify_relevant_tables gives a table
table_score(table, task_keywords) ==
    LET InTableName(keyword) == Contains(Lower(table.name), Lower(keyword))
        ColumnHits(column) ==
            LET InColumnName(keyword) == Contains(Lower(column.name), Lower(keyword))
            IN  Count(task_keywords, InColumnName)
        InComments(keyword) == Contains(Lower(table.comments), Lower(keyword))
        RECURSIVE SumHits(_)
        SumHits(columns) ==
            IF columns = <<>> THEN 0 ELSE ColumnHits(Head(columns)) + SumHits(Tail(columns))
    IN  3 * Count(task_keywords, InTableName)
            + SumHits(table.columns)
            + (IF table.comments # None /\ table.comments # <<>>
               THEN 2 * Count(task_keywords, InComments) ELSE 0)

identify_relevant_tables_uncapped(schema_analysis, task_keywords) ==
    LET scored == [i \in 1..Len(schema_analysis.tables) |->
                      [name |-> schema_analysis.tables[i].name,
                       score |-> table_score(schema_analysis.tables[i], task_keywords)]]
        Positive(x) == x.score > 0
        relevant_tables == SortByScore(SelectSeq(scored, Positive))
    IN  [i \in 1..Len(relevant_tables) |-> relevant_tables[i].name]

identify_relevant_tables(schema_analysis, task_keywords) ==
    LET scored == [i \in 1..Len(schema_analysis.tables) |->
                      [name |-> schema_analysis.tables[i].name,
                       score |-> table_score(schema_analysis.tables[i], task_keywords)]]
        Positive(x) == x.score > 0
        relevant_tables == SortByScore(SelectSeq(scored, Positive))
    IN  [i \in 1..Min(10, Len(relevant_tables)) |-> relevant_tables[i].name]

\* the tables of an analysed schema: five kinds of table, told apart by a last character;
\* a table of kind 4 matches no keyword
Letter == <<"0", "1", "2", "3", "4", "5", "6", "7", "8", "9", "#", "$", "@", "&">>
W_KEY == <<"k", "e", "y">>
W_PIN == <<"p", "i", "n">>
Column(name) == [cls |-> "ColumnInfo", name |-> name]

TableOfKind(kind, i, at) ==
    LET table(name, columns, comments) ==
            [cls |-> "TableInfo", name |-> name \o <<"_", Letter[i]>>,
             columns |-> columns, comments |-> comments, last_analyzed |-> Dt(at)]
    IN  CASE kind = 1 -> table(<<"K", "E", "Y">>, <<Column(<<"i", "d">>)>>, None)
          [] kind = 2 -> table(<<"M", "A", "P">>,
                               <<Column(<<"P", "I", "N">>), Column(<<"K", "E", "Y">>)>>,
                               <<>>)
          [] kind = 3 -> table(<<"N", "A", "M", "E">>, <<Column(<<"i", "d">>)>>,
                               <<"a", "p", "i", " ", "k", "e", "y">>)
          [] kind = 4 -> table(<<"M", "A", "P">>, <<Column(<<"i", "d">>)>>, None)
          [] OTHER -> table(<<"K", "E", "Y", "_", "P", "I", "N">>,
                            <<Column(<<"K", "E", "Y">>)>>, None)

\* a schema analysis made at a given time, of n tables: table z matches no keyword
\* and the kinds of the others follow the pattern (a, b)
SchemaOf(n, a, b, z, at) ==
    [cls |-> "SchemaAnalysis",
     analysis_date |-> Dt(at),
     tables |-> [i \in 1..n |->
                    TableOfKind(IF i = z THEN 4
                                ELSE <<1, 2, 3, 5>>[((a * i + b) % 4) + 1], i, at)]]

SchemaAnalyses ==
    { SchemaOf(n, a, b, z, 0) : n \in 0..MaxTables, a \in 0..3, b \in 0..3, z \in {0, 3} }
KeywordLists == { <<>>, <<W_KEY>>, <<W_KEY, W_PIN>>, <<W_PIN, W_PIN>> }

(***************************************************************************)
(* ContextManager.set_database_context                                     *)
(***************************************************************************)
\* str.upper() on the characters of schema and table names
UpperChar(c) ==
    CASE c = "a" -> "A" [] c = "e" -> "E" [] c = "i" -> "I" [] c = "k" -> "K"
      [] c = "m" -> "M" [] c = "n" -> "N" [] c = "p" -> "P" [] c = "y" -> "Y"
      [] OTHER -> c

UpperName(s) == [i \in 1..Len(s) |-> UpperChar(s[i])]

\* the two statements of DatabaseConnector.get_table_relationships
Q_PARENTS == <<" ", "SELECT", " ", "DISTINCT", " ", "rc.table_name", " ">>
Q_CHILDREN == <<" ", "SELECT", " ", "DISTINCT", " ", "c.table_name", " ">>

\* the rows that all_constraints returns
RelTable == [columns |-> << <<"N", "A", "M", "E">> >>,
             rows |-> << <<StrVal(<<"K", "E", "Y", "_", "0">>)>> >>]

\* DatabaseConnector.get_table_relationships on a query cache: the outcomes it can
\* have; each is whether it raised, the value returned and the cache afterwards.
\* The connector is initialized by the time it is called.
get_table_relationships(cache, schema_name, table_name) ==
    LET parameters == [schema_name |-> UpperName(schema_name),
                       table_name |-> UpperName(table_name)]
        FirstColumn(result) == [r \in 1..Len(result.rows) |-> result.rows[r][1]]
        Raised(c) == [raised |-> TRUE, value |-> None, cache |-> c]
    IN  UNION { IF parent_result.outcome # "ok"
                THEN {Raised(parent_result.cache)}
                ELSE { IF child_result.outcome # "ok"
                       THEN Raised(child_result.cache)
                       ELSE [raised |-> FALSE,
                             value |-> [parents |-> FirstColumn(parent_result.result),
                                        children |-> FirstColumn(child_result.result)],
                             cache |-> child_result.cache] :
                         child_result \in execute_query_on(parent_result.cache,
                                              Q_CHILDREN, parameters, TRUE, "SessionPool") } :
                parent_result \in execute_query_on(cache, Q_PARENTS, parameters, TRUE,
                                                   "SessionPool") }

\* relevant_tables[:top]
first_tables(relevant_tables, top) ==
    SubSeq(relevant_tables, 1, Min(top, Len(relevant_tables)))

\* the loop over relevant_tables[:5]: the relationships collected when it ends or when
\* get_table_relationships raises, and the query cache afterwards
RECURSIVE collect_relationships(_, _, _, _)
collect_relationships(cache, schema_name, table_names, table_relationships) ==
    IF table_names = <<>>
    THEN {[table_relationships |-> table_relationships, cache |-> cache]}
    ELSE UNION { IF g.raised
                 THEN {[table_relationships |-> table_relationships, cache |-> g.cache]}
                 ELSE collect_relationships(g.cache, schema_name, Tail(table_names),
                          Put(table_relationships, Head(table_names), g.value)) :
                 g \in get_table_relationships(cache, schema_name, Head(table_names)) }

\* what DatabaseConnector.analyze_schema can return for a schema: the analysis of the
\* tables there are in the database
SchemaNames == { <<"a", "p", "p">> }
DbSchemas == { SchemaOf(dbSchema.n, dbSchema.a, dbSchema.b, dbSchema.z, now) }

\* the try block of set_database_context: the schema analysis, the relevant tables,
\* the relationships and the query cache it can end with
analyse_for_context(cache, schema_name, task_keywords, top) ==
    {[schema_analysis |-> None, relevant_tables |-> <<>>, table_relationships |-> <<>>,
      cache |-> cache]}
    \cup UNION {
        LET relevant_tables == identify_relevant_tables(schema_analysis, task_keywords)
        IN  { [schema_analysis |-> schema_analysis,
               relevant_tables |-> relevant_tables,
               table_relationships |-> c.table_relationships,
               cache |-> c.cache] :
                c \in collect_relationships(cache, schema_name,
                                            first_tables(relevant_tables, top), <<>>) } :
        schema_analysis \in DbSchemas }

\* set_database_context for the outcomes that its connection test can have: the value
\* returned, whether the test and the schema analysis were run, and the state afterwards
database_context_outcomes(context_id, schema_name, analyze_schema, tests, top) ==
    LET Refused == [ret |-> FALSE, tested |-> FALSE, analysed |-> FALSE, test |-> None,
                    active |-> active, disk |-> disk, initialized |-> initialized,
                    pool |-> pool, cache |-> query_cache]
        Store(t, a) ==
            LET db_context ==
                    [selected_schema |-> schema_name,
                     schema_analysis |-> a.schema_analysis,
                     relevant_tables |-> a.relevant_tables,
                     table_relationships |-> a.table_relationships,
                     last_updated |-> Dt(now),
                     connection_status |-> t.ret]
                contexts ==
                    [active EXCEPT ![context_id].database_context = db_context,
                                   ![context_id].last_accessed = Dt(now)]
            IN  [ret |-> TRUE, tested |-> TRUE, analysed |-> analyze_schema, test |-> t,
                 active |-> contexts,
                 disk |-> persist_context(contexts, disk, context_id),
                 initialized |-> t.initialized, pool |-> t.pool, cache |-> a.cache]
        NotAnalysed(t) ==
            [schema_analysis |-> None, relevant_tables |-> <<>>,
             table_relationships |-> <<>>, cache |-> t.cache]
    IN  IF context_id \notin DOMAIN active THEN {Refused}
        ELSE IF database_connector = "None" THEN {Refused}
        ELSE UNION {
            IF ~t.ret
            THEN {[Refused EXCEPT !.tested = TRUE, !.test = t,
                                  !.initialized = t.initialized, !.pool = t.pool,
                                  !.cache = t.cache]}
            ELSE IF analyze_schema
            THEN { Store(t, a) :
                     a \in analyse_for_context(t.cache, schema_name,
                               active[context_id].task_context.keywords, top) }
            ELSE {Store(t, NotAnalysed(t))} :
            t \in tests }

\* a connection test whose failure is not looked at
UncheckedTests == { [t EXCEPT !.ret = TRUE] : t \in test_connection }

set_database_context_unchecked(context_id, schema_name, analyze_schema) ==
    database_context_outcomes(context_id, schema_name, analyze_schema, UncheckedTests, 5)

\* relationships fetched for every relevant table
set_database_context_all_tables(context_id, schema_name, analyze_schema) ==
    database_context_outcomes(context_id, schema_name, analyze_schema, test_connection, 10)

set_database_context(context_id, schema_name, analyze_schema) ==
    database_context_outcomes(context_id, schema_name, analyze_schema, test_connection, 5)

\* the connector call recorded is the connection test
SetDatabaseContext ==
    \E context_id \in IdInputs, schema_name \in SchemaNames, analyze_schema \in BOOLEAN :
    \E r \in set_database_context(context_id, schema_name, analyze_schema) :
        /\ active' = r.active
        /\ disk' = r.disk
        /\ initialized' = r.initialized
        /\ pool' = r.pool
        /\ query_cache' = r.cache
        /\ lastCall' = IF r.tested
                       THEN [op |-> "test_connection", query |-> Q_DUAL,
                             events |-> r.test.events,
                             outcome |-> IF r.test.ret THEN "True" ELSE "False",
                             result |-> r.test.result]
                       ELSE lastCall
        /\ UNCHANGED <<pureVars, now, dbTable, dbSchema, schemaVars, current, scan_cache, rel_cache,
                       database_connector, db_calls, scanVars>>

\* the context manager with or without a database connector
\* over a database with no table or with one table unrelated to the task
D_KEYS == << <<"r", "o", "t", "a", "t", "e">>, W_KEY, <<"a", "n", "d">>, W_PIN >>

InitDatabaseContext ==
    /\ ValidateIdle /\ MaskIdle /\ RankIdle
    /\ now = 0
    /\ dbTable = RelTable
    /\ dbSchema \in {NoTables, [n |-> 1, a |-> 0, b |-> 0, z |-> 1]}
    /\ initialized = FALSE
    /\ pool = "None"
    /\ query_cache = <<>>
    /\ lastCall = NoCall
    /\ SchemaIdle
    /\ active = <<>>
    /\ current = None
    /\ disk = <<>>
    /\ scan_cache = <<>>
    /\ rel_cache = <<>>
    /\ scan_calls = <<>>
    /\ scan_file = <<>>
    /\ database_connector \in {"None", "DatabaseConnector"}
    /\ db_calls = <<>>

NextDatabaseContext ==
    \/ CreateTaskContextOf({D_KEYS})
    \/ SetDatabaseContext
    \/ ConnectorExecuteQueryOf({Q_DUAL})
    \/ TickDb

SpecDatabaseContext == InitDatabaseContext /\ [][NextDatabaseContext]_vars

\* set_database_context over a schema with more than five tables that match the task,
\* and over one with fewer
WIDE_SCHEMA == [n |-> 7, a |-> 1, b |-> 0, z |-> 3]
NARROW_SCHEMA == [n |-> 3, a |-> 1, b |-> 0, z |-> 2]

InitTableRelationships ==
    /\ ValidateIdle /\ MaskIdle /\ RankIdle
    /\ now = 0
    /\ dbTable = RelTable
    /\ dbSchema \in {WIDE_SCHEMA, NARROW_SCHEMA}
    /\ initialized = FALSE
    /\ pool = "None"
    /\ query_cache = <<>>
    /\ lastCall = NoCall
    /\ SchemaIdle
    /\ active = <<>>
    /\ current = None
    /\ disk = <<>>
    /\ scan_cache = <<>>
    /\ rel_cache = <<>>
    /\ scan_calls = <<>>
    /\ scan_file = <<>>
    /\ database_connector = "DatabaseConnector"
    /\ db_calls = <<>>

NextTableRelationships ==
    \/ CreateTaskContextOf({D_KEYS})
    \/ SetDatabaseContext

SpecTableRelationships == InitTableRelationships /\ [][NextTableRelationships]_vars

\* the relevance analyzer's cache while the scanner finds a second repository: scans,
\* and set_repository_context for the names of both
TOKEN_API == <<"t", "o", "k", "e", "n", "-", "a", "p", "i">>
GrowingRepoPaths == RepoPaths \cup { [parent |-> "repos", name |-> TOKEN_API] }
GrowingNameLists == { <<AUTH_SERVICE>>, <<TOKEN_API>>, <<TOKEN_API, AUTH_SERVICE>> }

NextRelevanceCache ==
    \/ ScanRepositoriesOf(GrowingRepoPaths)
    \/ CreateTaskContext
    \/ SetRepositoryContextWith(GrowingNameLists)
    \/ TickCtx

SpecRelevanceCache == InitCtx /\ [][NextRelevanceCache]_vars

\* the scanner's cache over scans that find now both roots, now one, now none, with
\* the read operations, while there are contexts that can select repositories
GrowthRepoPaths == GrowingRepoPaths \cup { ScanRoot(1) }
GrowthReadNames == { AUTH_SERVICE, TOKEN_API, GHOST }

NextCacheGrowth ==
    \/ ScanRepositoriesOf(GrowthRepoPaths)
    \/ CreateTaskContext
    \/ GetRepositoryList
    \/ GetRepositoryByNameOf(GrowthReadNames)
    \/ GetFileContentOf(GrowthReadNames)
    \/ SearchCodePatternsOf(GrowingNameLists)
    \/ TickScan

SpecCacheGrowth == InitCtx /\ [][NextCacheGrowth]_vars

\* the context manager while the scanner has found no repository
NextLifecycle ==
    \/ CreateTaskContext
    \/ SetRepositoryContext
    \/ UpdateWorkflowStep
    \/ GetContext
    \/ GetCurrentContext
    \/ SetCurrentContext
    \/ CleanupOldContexts
    \/ Restart
    \/ TickCtx

SpecLifecycle == InitCtx /\ [][NextLifecycle]_vars

(***************************************************************************)
(* SchemaAnalyzer.analyze_schema behind DatabaseConnector.analyze_schema,  *)
(* step by step.  A call takes one connection from the pool, lists the     *)
(* tables, hands one unit of work per table to the default executor of     *)
(* the event loop, waits for all of them, reads the other schema objects,  *)
(* caches the result and gives the connection back.                        *)
(***************************************************************************)
SCHEMA_CACHE_TTL == 3600

\* ConnectionPool(max_connections=5)
MAX_CONNECTIONS == 5

\* loop.run_in_executor(None, ...) runs on the default executor of the loop, a
\* ThreadPoolExecutor of min(32, os.cpu_count() + 4) threads: 6 with two processors
DEFAULT_EXECUTOR_WORKERS == 6

MaxAnalyses == 1

\* the table of the database that the i-th row of all_tables names, as a unit of work
\* that ends at the given time makes it
TableOf(i, at) == SchemaOf(dbSchema.n, dbSchema.a, dbSchema.b, dbSchema.z, at).tables[i]

\* a second owner, of the first table only
HR_SCHEMA == <<"h", "r">>

\* _get_tables: all_tables has one row for each table of the owner
get_tables(schema_name) ==
    IF schema_name = HR_SCHEMA THEN [i \in 1..Min(1, dbSchema.n) |-> i]
    ELSE [i \in 1..dbSchema.n |-> i]

\* sum(len(table.columns) for table in valid_tables)
RECURSIVE SumColumns(_)
SumColumns(tables) ==
    IF tables = <<>> THEN 0 ELSE Len(Head(tables).columns) + SumColumns(Tail(tables))

\* a call of analyze_schema after the fan-out: the steps taken on its connection, the
\* rows of all_tables, the units that the executor has not started, those in a worker
\* thread, and what the others gave
new_analysis(schema_name, tables) ==
    [schema_name |-> schema_name,
     events |-> <<"acquire", "get_tables">>,
     tables |-> tables,
     waiting |-> Range(tables),
     running |-> {},
     done |-> <<>>]

\* DatabaseConnector.analyze_schema up to asyncio.gather: the outcomes it can have;
\* each is the steps taken, how this part ended, the cached result, the call that
\* goes on, the number of connections out of the pool and the connector afterwards
begin_analysis(cache, held, schema_name, force_refresh) ==
    LET Out(ev, k, res, call, h, init) ==
            [events |-> init.events \o ev, kind |-> k, result |-> res, call |-> call,
             busy |-> h,
             initialized |-> IF init.raised THEN initialized ELSE TRUE,
             pool |-> init.pool]
        After(init) ==
            IF init.raised THEN {Out(<<>>, "raised", None, None, held, init)}
            ELSE IF /\ ~force_refresh
                    /\ schema_name \in DOMAIN cache
                    /\ now - cache[schema_name].time < SCHEMA_CACHE_TTL
            THEN {Out(<<"cache_hit">>, "cached", cache[schema_name].result, None, held,
                      init)}
            ELSE {\* the pool has no connection to give
                  Out(<<"acquire_failed">>, "raised", None, None, held, init),
                  \* _get_tables raises and the connection is given back
                  Out(<<"acquire", "get_tables", "release">>, "raised", None, None,
                      (held + 1) - 1, init),
                  Out(<<"acquire", "get_tables">>, "started", None,
                      new_analysis(schema_name, get_tables(schema_name)), held + 1,
                      init)}
    IN  UNION { After(init) : init \in initialize }

\* the units of work in worker threads, over all the calls under way
RECURSIVE SumRunning(_)
SumRunning(ids) ==
    IF ids = {} THEN 0
    ELSE LET c == CHOOSE x \in ids : TRUE
         IN  Cardinality(analyses[c].running) + SumRunning(ids \ {c})

UnitsRunning == SumRunning(DOMAIN analyses)

\* the result that analyze_schema builds from the tables of the units that succeeded
schema_analysis_of(schema_name, valid_tables) ==
    [cls |-> "SchemaAnalysis",
     schema_name |-> schema_name,
     tables |-> valid_tables,
     total_tables |-> Len(valid_tables),
     total_columns |-> SumColumns(valid_tables),
     analysis_date |-> Dt(now)]

\* what asyncio.gather(*table_tasks, return_exceptions=True) returns
table_infos(call) == [k \in 1..Len(call.tables) |-> call.done[call.tables[k]]]

\* analyze_schema that lets the failure of a unit end the analysis
finish_analysis_aborting(call, cache, held, others_fail) ==
    IF others_fail \/ \E k \in 1..Len(call.tables) : table_infos(call)[k] = Failure
    THEN [events |-> call.events \o <<"gather", "release">>, raised |-> TRUE, result |-> None,
          cache |-> cache, busy |-> held - 1]
    ELSE LET result == schema_analysis_of(call.schema_name, table_infos(call))
         IN  [events |-> call.events \o <<"gather", "cache_store", "release">>,
              raised |-> FALSE,
              result |-> result,
              cache |-> Put(cache, call.schema_name, [result |-> result, time |-> now]),
              busy |-> held - 1]

\* analyze_schema that counts the tables listed, not the tables analysed
finish_analysis_counting_listed(call, cache, held, others_fail) ==
    LET IsTableInfo(t) == t # Failure
        result == [schema_analysis_of(call.schema_name,
                                      SelectSeq(table_infos(call), IsTableInfo))
                       EXCEPT !.total_tables = Len(call.tables)]
    IN  IF others_fail
        THEN [events |-> call.events \o <<"gather", "release">>, raised |-> TRUE, result |-> None,
              cache |-> cache, busy |-> held - 1]
        ELSE [events |-> call.events \o <<"gather", "cache_store", "release">>,
              raised |-> FALSE,
              result |-> result,
              cache |-> Put(cache, call.schema_name, [result |-> result, time |-> now]),
              busy |-> held - 1]

\* analyze_schema that keeps the connection when it raises
finish_analysis_leaking(call, cache, held, others_fail) ==
    LET IsTableInfo(t) == t # Failure
        result == schema_analysis_of(call.schema_name,
                                     SelectSeq(table_infos(call), IsTableInfo))
    IN  IF others_fail
        THEN [events |-> call.events \o <<"gather">>, raised |-> TRUE, result |-> None,
              cache |-> cache, busy |-> held]
        ELSE [events |-> call.events \o <<"gather", "cache_store", "release">>,
              raised |-> FALSE,
              result |-> result,
              cache |-> Put(cache, call.schema_name, [result |-> result, time |-> now]),
              busy |-> held - 1]

\* analyze_schema after asyncio.gather: the exceptions are filtered out, the views,
\* sequences, procedures and functions are read (any of these queries can fail, and
\* the call then raises), the result is built and cached; the connection is given
\* back on both paths
finish_analysis(call, cache, held, others_fail) ==
    LET IsTableInfo(t) == t # Failure
        valid_tables == SelectSeq(table_infos(call), IsTableInfo)
        result == schema_analysis_of(call.schema_name, valid_tables)
    IN  IF others_fail
        THEN [events |-> call.events \o <<"gather", "release">>, raised |-> TRUE, result |-> None,
              cache |-> cache, busy |-> held - 1]
        ELSE [events |-> call.events \o <<"gather", "cache_store", "release">>,
              raised |-> FALSE,
              result |-> result,
              cache |-> Put(cache, call.schema_name, [result |-> result, time |-> now]),
              busy |-> held - 1]

BeginAnalysis ==
    \E c \in (1..MaxAnalyses) \ DOMAIN analyses, schema_name \in SchemaNames,
       force_refresh \in BOOLEAN :
    \E o \in begin_analysis(schema_cache, busy, schema_name, force_refresh) :
        /\ analyses' = IF o.kind = "started" THEN Put(analyses, c, o.call) ELSE analyses
        /\ busy' = o.busy
        /\ initialized' = o.initialized
        /\ pool' = o.pool
        /\ lastCall' = IF o.kind = "started" THEN lastCall
                       ELSE [op |-> "analyze_schema", query |-> schema_name,
                             events |-> o.events, outcome |-> o.kind,
                             result |-> o.result]
        /\ UNCHANGED <<pureVars, now, ctxVars, scanVars, dbTable, dbSchema, query_cache,
                       schema_cache>>

\* a thread of the default executor takes a unit of work: _get_table_metadata
UnitStart ==
    \E c \in DOMAIN analyses :
        \E i \in analyses[c].waiting :
            /\ UnitsRunning < DEFAULT_EXECUTOR_WORKERS
            /\ analyses' = [analyses EXCEPT ![c].waiting = @ \ {i},
                                            ![c].running = @ \cup {i}]
            /\ UNCHANGED <<pureVars, now, ctxVars, scanVars, dbTable, dbSchema, initialized,
                           pool, query_cache, lastCall, schema_cache, busy>>

\* _get_table_metadata returns the TableInfo or raises
UnitDone(outcomes) ==
    \E c \in DOMAIN analyses :
        \E i \in analyses[c].running, fails \in outcomes :
            /\ analyses' = [analyses EXCEPT
                               ![c].running = @ \ {i},
                               ![c].done = Put(@, i, IF fails THEN Failure
                                                     ELSE TableOf(i, now))]
            /\ UNCHANGED <<pureVars, now, ctxVars, scanVars, dbTable, dbSchema, initialized,
                           pool, query_cache, lastCall, schema_cache, busy>>

\* the calls whose units of work have all ended
Gathered == { c \in DOMAIN analyses :
                analyses[c].waiting = {} /\ analyses[c].running = {} }

FinishAnalysis ==
    \E c \in Gathered, others_fail \in BOOLEAN :
        LET r == finish_analysis(analyses[c], schema_cache, busy, others_fail)
        IN  /\ schema_cache' = r.cache
            /\ busy' = r.busy
            /\ analyses' = Drop(analyses, c)
            /\ lastCall' = [op |-> "analyze_schema", query |-> analyses[c].schema_name,
                            events |-> r.events,
                            outcome |-> IF r.raised THEN "raised" ELSE "analysed",
                            result |-> r.result]
            /\ UNCHANGED <<pureVars, now, ctxVars, scanVars, dbTable, dbSchema, initialized,
                           pool, query_cache>>

\* the analyzer over a schema of two tables, with the clock
TWO_TABLES == [n |-> 2, a |-> 1, b |-> 0, z |-> 0]

InitAnalyze ==
    /\ ValidateIdle /\ MaskIdle /\ RankIdle /\ CtxIdle
    /\ now = 0
    /\ dbTable = [columns |-> <<>>, rows |-> <<>>]
    /\ dbSchema \in {NoTables, TWO_TABLES}
    /\ initialized = FALSE
    /\ pool = "None"
    /\ query_cache = <<>>
    /\ lastCall = NoCall
    /\ SchemaIdle

NextAnalyze ==
    \/ BeginAnalysis
    \/ UnitStart
    \/ UnitDone(BOOLEAN)
    \/ FinishAnalysis
    \/ TickCtx

SpecAnalyze == InitAnalyze /\ [][NextAnalyze]_vars

\* one call over a schema with more tables than the pool has connections
SEVEN_TABLES == [n |-> 7, a |-> 1, b |-> 0, z |-> 0]
ONE_TABLE == [n |-> 1, a |-> 1, b |-> 0, z |-> 0]

InitFanOut ==
    /\ ValidateIdle /\ MaskIdle /\ RankIdle /\ CtxIdle
    /\ now = 0
    /\ dbTable = [columns |-> <<>>, rows |-> <<>>]
    /\ dbSchema = SEVEN_TABLES
    /\ initialized = FALSE
    /\ pool = "None"
    /\ query_cache = <<>>
    /\ lastCall = NoCall
    /\ SchemaIdle

NextFanOut ==
    \/ BeginAnalysis
    \/ UnitStart
    \/ UnitDone({FALSE})
    \/ FinishAnalysis

SpecFanOut == InitFanOut /\ [][NextFanOut]_vars

\* the analyzer and the query operation on one pool, over a schema of one table

InitPool ==
    /\ ValidateIdle /\ MaskIdle /\ RankIdle /\ CtxIdle
    /\ now = 0
    /\ dbTable = [columns |-> <<>>, rows |-> <<>>]
    /\ dbSchema = ONE_TABLE
    /\ initialized = FALSE
    /\ pool = "None"
    /\ query_cache = <<>>
    /\ lastCall = NoCall
    /\ SchemaIdle

NextPool ==
    \/ BeginAnalysis
    \/ UnitStart
    \/ UnitDone(BOOLEAN)
    \/ FinishAnalysis
    \/ ConnectorExecuteQueryOf({Q_SELECT, Q_DROP})
    \/ TickCtx

SpecPool == InitPool /\ [][NextPool]_vars

(***************************************************************************)
(* ContextManager.set_database_context step by step: the coroutine is      *)
(* suspended while it awaits the connection test, the schema analysis and  *)
(* the relationships, and other operations of the manager run meanwhile.   *)
(***************************************************************************)
MaxDbCalls == 2

OverlapSchemaNames == SchemaNames \cup {HR_SCHEMA}

\* DatabaseConnector.analyze_schema from its call to its return, for a caller that
\* awaits it: the outcomes it can have, for every set of units of work that fail
analyze_schema_awaited(cache, schema_name) ==
    UNION {
        IF o.kind = "started"
        THEN { LET call == [o.call EXCEPT
                               !.waiting = {},
                               !.done = [i \in Range(o.call.tables) |->
                                            IF i \in failed THEN Failure
                                            ELSE TableOf(i, now)]]
                   r == finish_analysis(call, cache, o.busy, others_fail)
               IN  [raised |-> r.raised, result |-> r.result, cache |-> r.cache,
                    initialized |-> o.initialized, pool |-> o.pool] :
                 failed \in SUBSET Range(o.call.tables), others_fail \in BOOLEAN }
        ELSE {[raised |-> o.kind = "raised", result |-> o.result, cache |-> cache,
               initialized |-> o.initialized, pool |-> o.pool]} :
        o \in begin_analysis(cache, busy, schema_name, FALSE) }

\* the calls of set_database_context suspended at a given await
awaiting(pc) == { c \in DOMAIN db_calls : db_calls[c].pc = pc }

\* a call of set_database_context that has ended
returned_call(call, ret, db_context) ==
    [call EXCEPT !.pc = "returned", !.ret = ret, !.db_context = db_context]

\* the WorkflowContext that the local variable workflow_context of a call refers to
captured(call) == IF call.linked THEN active[call.context_id] ELSE call.obj

\* the DatabaseContext of a call whose schema name is an attribute of the manager
\* that the latest call has set
db_context_of_latest(calls, c, schema_analysis, relevant_tables, table_relationships) ==
    LET latest == CHOOSE d \in DOMAIN calls : \A x \in DOMAIN calls : x <= d
    IN  [selected_schema |-> calls[latest].schema_name,
         schema_analysis |-> schema_analysis,
         relevant_tables |-> relevant_tables,
         table_relationships |-> table_relationships,
         last_updated |-> Dt(now),
         connection_status |-> TRUE]

\* the DatabaseContext that a call builds from its local variables
db_context_of(calls, c, schema_analysis, relevant_tables, table_relationships) ==
    [selected_schema |-> calls[c].schema_name,
     schema_analysis |-> schema_analysis,
     relevant_tables |-> relevant_tables,
     table_relationships |-> table_relationships,
     last_updated |-> Dt(now),
     connection_status |-> TRUE]

\* the end of set_database_context, from the DatabaseContext to `return True': the
\* context is put in the object that the call holds, and _persist_context writes
\* what the map holds under the id, if anything
store_database_context(call, db_context) ==
    LET contexts ==
            IF call.linked
            THEN [active EXCEPT ![call.context_id].database_context = db_context,
                                ![call.context_id].last_accessed = Dt(now)]
            ELSE active
    IN  [active |-> contexts,
         disk |-> persist_context(contexts, disk, call.context_id)]

\* set_database_context up to `await self.database_connector.test_connection()';
\* the calls are numbered in the order in which they begin
BeginSetDatabaseContextOf(schema_names) ==
    \E context_id \in IdInputs, schema_name \in schema_names, analyze_schema \in BOOLEAN :
        LET c == Cardinality(DOMAIN db_calls) + 1
            call == [context_id |-> context_id, schema_name |-> schema_name,
                     analyze_schema |-> analyze_schema, linked |-> TRUE, obj |-> None,
                     pc |-> "test", ret |-> FALSE, schema_analysis |-> None,
                     relevant_tables |-> <<>>, db_context |-> None]
            refused == context_id \notin DOMAIN active \/ database_connector = "None"
        IN  /\ c <= MaxDbCalls
            /\ db_calls' = Put(db_calls, c,
                               IF refused
                               THEN [returned_call(call, FALSE, None) EXCEPT
                                        !.linked = FALSE]
                               ELSE call)
            /\ UNCHANGED <<pureVars, now, dbVars, active, current, disk, scan_cache,
                           rel_cache, database_connector, scanVars>>

\* the connection test returns to a call: the call ends when the test failed, goes
\* on to await the schema analysis, or stores the context without an analysis
TestConnectionReturns ==
    \E c \in awaiting("test") :
    \E t \in test_connection :
        LET call == db_calls[c]
            db_context == db_context_of(db_calls, c, None, <<>>, <<>>)
            stored == store_database_context(call, db_context)
            stores == t.ret /\ ~call.analyze_schema
        IN  /\ initialized' = t.initialized
            /\ pool' = t.pool
            /\ query_cache' = t.cache
            /\ lastCall' = [op |-> "test_connection", query |-> Q_DUAL,
                            events |-> t.events,
                            outcome |-> IF t.ret THEN "True" ELSE "False",
                            result |-> t.result]
            /\ active' = IF stores THEN stored.active ELSE active
            /\ disk' = IF stores THEN stored.disk ELSE disk
            /\ db_calls' = [db_calls EXCEPT ![c] =
                               IF ~t.ret THEN returned_call(call, FALSE, None)
                               ELSE IF stores THEN returned_call(call, TRUE, db_context)
                               ELSE [call EXCEPT !.pc = "analyze"]]
            /\ UNCHANGED <<pureVars, now, dbTable, dbSchema, schemaVars, current,
                           scan_cache, rel_cache, database_connector, scanVars>>

\* the schema analysis returns to a call or raises: the relevant tables are taken
\* from the keywords of the context that the call holds, and the call goes on to
\* await the relationships of the first of them, or stores the context when there is
\* none or when the analysis raised
AnalyzeSchemaReturns ==
    \E c \in awaiting("analyze") :
    \E a \in analyze_schema_awaited(schema_cache, db_calls[c].schema_name) :
        LET call == db_calls[c]
            relevant_tables ==
                IF a.raised THEN <<>>
                ELSE identify_relevant_tables(a.result,
                                              captured(call).task_context.keywords)
            db_context ==
                db_context_of(db_calls, c, IF a.raised THEN None ELSE a.result,
                              relevant_tables, <<>>)
            stored == store_database_context(call, db_context)
            stores == relevant_tables = <<>>
        IN  /\ schema_cache' = a.cache
            /\ initialized' = a.initialized
            /\ pool' = a.pool
            /\ active' = IF stores THEN stored.active ELSE active
            /\ disk' = IF stores THEN stored.disk ELSE disk
            /\ db_calls' = [db_calls EXCEPT ![c] =
                               IF stores THEN returned_call(call, TRUE, db_context)
                               ELSE [call EXCEPT !.pc = "relationships",
                                                 !.schema_analysis = a.result,
                                                 !.relevant_tables = relevant_tables]]
            /\ UNCHANGED <<pureVars, now, dbTable, dbSchema, query_cache, lastCall,
                           analyses, busy, current, scan_cache, rel_cache,
                           database_connector, scanVars>>

\* the loop over relevant_tables[:5] ends, at its end or when get_table_relationships
\* raises, and the call stores the context
RelationshipsReturn ==
    \E c \in awaiting("relationships") :
    \E r \in collect_relationships(query_cache, db_calls[c].schema_name,
                                   first_tables(db_calls[c].relevant_tables, 5), <<>>) :
        LET call == db_calls[c]
            db_context == db_context_of(db_calls, c, call.schema_analysis,
                                        call.relevant_tables, r.table_relationships)
            stored == store_database_context(call, db_context)
        IN  /\ query_cache' = r.cache
            /\ active' = stored.active
            /\ disk' = stored.disk
            /\ db_calls' = [db_calls EXCEPT ![c] = returned_call(call, TRUE, db_context)]
            /\ UNCHANGED <<pureVars, now, dbTable, dbSchema, schemaVars, initialized, pool,
                           lastCall, current, scan_cache, rel_cache, database_connector,
                           scanVars>>

\* set_database_context while contexts are cleaned up and read, over a database with
\* no table: the loop over the relevant tables has no iteration
InitSetDuringCleanup ==
    /\ ValidateIdle /\ MaskIdle /\ RankIdle /\ CtxIdle
    /\ now = 0
    /\ dbTable = RelTable
    /\ dbSchema = NoTables
    /\ initialized = FALSE
    /\ pool = "None"
    /\ query_cache = <<>>
    /\ lastCall = NoCall
    /\ SchemaIdle

NextSetDuringCleanup ==
    \/ CreateTaskContextOf({D_KEYS})
    \/ BeginSetDatabaseContextOf(SchemaNames)
    \/ TestConnectionReturns
    \/ AnalyzeSchemaReturns
    \/ CleanupOldContexts
    \/ GetContext
    \/ TickScan

SpecSetDuringCleanup == InitSetDuringCleanup /\ [][NextSetDuringCleanup]_vars

\* calls of set_database_context for two schemas that overlap, on contexts created
\* before the first of them, over a database of two tables that match the keywords
\* of the task, the first of them in both schemas
InitOverlap ==
    /\ ValidateIdle /\ MaskIdle /\ RankIdle /\ CtxIdle
    /\ now = 0
    /\ dbTable = RelTable
    /\ dbSchema = TWO_TABLES
    /\ initialized = FALSE
    /\ pool = "None"
    /\ query_cache = <<>>
    /\ lastCall = NoCall
    /\ SchemaIdle

NextOverlap ==
    \/ (db_calls = <<>> /\ CreateTaskContextOf({D_KEYS}))
    \/ BeginSetDatabaseContextOf(OverlapSchemaNames)
    \/ TestConnectionReturns
    \/ AnalyzeSchemaReturns
    \/ RelationshipsReturn

SpecOverlap == InitOverlap /\ [][NextOverlap]_vars

(***************************************************************************)
(* Specification of validate_query as a function of its input              *)
(***************************************************************************)
InitValidate ==
    /\ vq \in Queries
    /\ vres = "none"
    /\ MaskIdle
    /\ now = 0
    /\ DbIdle
    /\ CtxIdle
    /\ RankIdle

Validate ==
    /\ vres = "none"
    /\ vres' = IF validate_query(vq) THEN "accepted" ELSE "rejected"
    /\ UNCHANGED <<vq, mcol, mval, mout, rankVars, now, dbVars, ctxVars, scanVars>>

NextValidate == Validate

SpecValidate == InitValidate /\ [][NextValidate]_vars

(***************************************************************************)
(* Specification of mask_sensitive_data as a function of its input         *)
(***************************************************************************)
InitMask ==
    /\ mcol \in ColumnNames
    /\ mval \in Values \X Values
    /\ mout = <<>>
    /\ ValidateIdle
    /\ now = 0
    /\ DbIdle
    /\ CtxIdle
    /\ RankIdle

Mask ==
    /\ mout = <<>>
    /\ mout' = <<mask_sensitive_data(mcol, mval[1]), mask_sensitive_data(mcol, mval[2])>>
    /\ UNCHANGED <<vq, vres, mcol, mval, rankVars, now, dbVars, ctxVars, scanVars>>

NextMask == Mask

SpecMask == InitMask /\ [][NextMask]_vars

(***************************************************************************)
(* Specification of _calculate_repository_relevance as a function of the   *)
(* repository and the task description                                     *)
(***************************************************************************)
W_JAVA == <<"j", "a", "v", "a">>
W_PYTHON == <<"p", "y", "t", "h", "o", "n">>
W_SPRING == <<"s", "p", "r", "i", "n", "g">>
W_DJANGO == <<"d", "j", "a", "n", "g", "o">>
W_FLASK == <<"f", "l", "a", "s", "k">>
W_GO == <<"g", "o">>
POLYGLOT == W_JAVA \o <<"-">> \o W_PYTHON \o <<"-">> \o W_SPRING
D_STACK == <<W_JAVA, W_PYTHON, W_SPRING, W_DJANGO, W_FLASK>>

\* the day of the call and the days of the last commit, one of them in the future
CommitDays == {0, 140, 190, 201}
GitInfos ==
    {None} \cup { [cls |-> "GitInfo", last_commit_date |-> Dt(d * 86400)] : d \in CommitDays }

RelevanceRepos ==
    { [cls |-> "RepositoryInfo", name |-> n, path |-> [parent |-> "repos", name |-> n],
       primary_language |-> pl, languages |-> ls, frameworks |-> fs, file_count |-> fc,
       git_info |-> g, last_scanned |-> Dt(0)] :
        n \in {POLYGLOT, AUTH_SERVICE, <<"A", "P", "I">>},
        pl \in {W_JAVA, W_GO},
        ls \in {<<>>, <<W_JAVA>>, <<W_JAVA, W_PYTHON>>, <<W_GO, W_JAVA, W_PYTHON>>},
        fs \in {<<>>, <<W_SPRING>>, <<W_SPRING, W_DJANGO, W_FLASK>>},
        fc \in {10, 60, 120},
        g \in GitInfos }

\* "java java": a word of the repository name written twice
D_TWICE == <<W_JAVA, W_JAVA>>
RelevanceDescriptions == {<<>>, D_AUTH, D_UI, D_STACK, D_TWICE}

InitRelevance ==
    /\ rel_in \in [repo : RelevanceRepos, task_description : RelevanceDescriptions]
    /\ rel_out = <<>>
    /\ tab_in = <<>>
    /\ tab_out = <<>>
    /\ ValidateIdle /\ MaskIdle /\ DbIdle /\ CtxIdle
    /\ now = 200 * 86400

\* the body of the loop of analyze_task_relevance for one repository
CalculateRelevance ==
    /\ rel_out = <<>>
    /\ LET task_keywords == extract_keywords(rel_in.task_description)
           task_technologies == identify_technologies(rel_in.task_description)
       IN  rel_out' =
               [points |-> relevance_points(rel_in.repo, task_keywords, task_technologies),
                score |-> calculate_repository_relevance(rel_in.repo, task_keywords,
                                                         task_technologies)]
    /\ UNCHANGED <<vq, vres, mcol, mval, mout, rel_in, tab_in, tab_out, now, dbVars,
                   ctxVars, scanVars>>

NextRelevance == CalculateRelevance

SpecRelevance == InitRelevance /\ [][NextRelevance]_vars

(***************************************************************************)
(* Specification of _identify_relevant_tables as a function of the schema  *)
(* analysis and the task keywords                                          *)
(***************************************************************************)
InitTables ==
    /\ tab_in \in [schema_analysis : SchemaAnalyses, task_keywords : KeywordLists]
    /\ tab_out = <<>>
    /\ rel_in = <<>>
    /\ rel_out = <<>>
    /\ ValidateIdle /\ MaskIdle /\ DbIdle /\ CtxIdle
    /\ now = 0

IdentifyRelevantTables ==
    /\ tab_out = <<>>
    /\ tab_out' = [ret |-> identify_relevant_tables(tab_in.schema_analysis,
                                                    tab_in.task_keywords)]
    /\ UNCHANGED <<vq, vres, mcol, mval, mout, rel_in, rel_out, tab_in, now, dbVars,
                   ctxVars, scanVars>>

NextTables == IdentifyRelevantTables

SpecTables == InitTables /\ [][NextTables]_vars

(***************************************************************************)
(* C2                                                                      *)
(***************************************************************************)
ReadOnlyPrefixes == {"SELECT", "WITH", "EXPLAIN", "DESCRIBE"}
DenyListTokens == {"INSERT", "UPDATE", "DELETE", "DROP", "CREATE", "ALTER",
                   "TRUNCATE", "GRANT", "REVOKE", "EXEC"}

\* position i of q holds a whole word (no word character touches it)
WholeWordAt(q, i) ==
    /\ IsWordLex(q[i])
    /\ (i > 1 => ~IsWordLex(q[i - 1]))
    /\ (i < Len(q) => ~IsWordLex(q[i + 1]))

FirstNonSpace(q) == CHOOSE i \in 1..Len(q) : ~IsSpace(q[i]) /\ \A j \in 1..(i - 1) : IsSpace(q[j])

HasNonSpace(q) == \E i \in 1..Len(q) : ~IsSpace(q[i])

\* the trimmed query starts with one of the words of `heads`
StartsWith(q, heads) == HasNonSpace(q) /\ UpperLex(q[FirstNonSpace(q)]) \in heads

\* ... and whitespace and more text follow that word
HeadThenSpace(q, heads) ==
    /\ StartsWith(q, heads)
    /\ LET i == FirstNonSpace(q)
       IN  /\ i < Len(q)
           /\ IsSpace(q[i + 1])
           /\ \E j \in (i + 2)..Len(q) : ~IsSpace(q[j])

ContainsToken(q, tokens) == \E i \in 1..Len(q) : WholeWordAt(q, i) /\ UpperLex(q[i]) \in tokens

\* C2 as stated: accepted iff the query starts with select / with / explain / describe
\* and contains none of insert, update, delete, drop, create, alter, truncate, grant,
\* revoke, exec
C2_AcceptsIffPrefixAndNoDeny ==
    vres # "none" =>
        (vres = "accepted" <=>
            (HeadThenSpace(vq, ReadOnlyPrefixes) /\ ~ContainsToken(vq, DenyListTokens)))

\* C2 amended: accepted iff, after trimming and ignoring case, the query starts with the
\* word select / with / explain / describe / desc followed by whitespace and more text,
\* and no whole word of it is insert, update, delete, drop, create, alter, truncate,
\* grant, revoke, exec or execute
C2_AcceptsIffHeadSpaceAndNoDenyWord ==
    vres # "none" =>
        (vres = "accepted" <=>
            (/\ HeadThenSpace(vq, ReadOnlyPrefixes \cup {"DESC"})
             /\ ~ContainsToken(vq, DenyListTokens \cup {"EXECUTE"})))

C2_Witness ==
    /\ vres = "accepted"
    /\ UpperLex(vq[FirstNonSpace(vq)]) = "DESC"
    /\ IsSpace(vq[1])

(***************************************************************************)
(* C4                                                                      *)
(***************************************************************************)
MaskLen(v) == IF v.kind = "str" THEN Min(Len(v.chars), 8) ELSE 3

\* C4 as stated: any two non-null values of a sensitive column have the same masked
\* output
C4_OneFixedMarker ==
    (mout # <<>> /\ is_sensitive(mcol) /\ mval[1] # None /\ mval[2] # None)
        => mout[1] = mout[2]

\* C4 amended: the masked value of a sensitive column is a run of asterisks, as long as
\* the original string up to 8 characters and 3 long for a value of any other type; two
\* non-null originals have the same output exactly when these lengths agree
C4_MarkerLengthFollowsValue ==
    (mout # <<>> /\ is_sensitive(mcol) /\ mval[1] # None /\ mval[2] # None) =>
        /\ \A k \in 1..2 :
              /\ mout[k].kind = "str"
              /\ \A i \in 1..Len(mout[k].chars) : mout[k].chars[i] = "*"
              /\ Len(mout[k].chars) = MaskLen(mval[k])
              /\ Len(mout[k].chars) <= 8
        /\ (mout[1] = mout[2] <=> MaskLen(mval[1]) = MaskLen(mval[2]))

C4_Witness ==
    /\ mout # <<>>
    /\ is_sensitive(mcol)
    /\ mval[1] = StrVal(Rep("a", 9))
    /\ mval[2] = IntVal(7)
    /\ mout[1] = Stars(8)
    /\ mout[2] = Stars(3)

(***************************************************************************)
(* C1                                                                      *)
(***************************************************************************)
PoolSteps == {"pool_init", "pool_missing", "acquire", "acquire_failed", "execute",
              "release"}

\* C1: a query that contains a deny-listed keyword, in any casing, is rejected by
\* execute before the pool is initialised and before a connection is acquired, whether
\* or not the connector was initialised before
C1_DeniedBeforePoolIsTouched ==
    (lastCall.op = "execute_query" /\ ContainsToken(lastCall.query, FORBIDDEN_PATTERNS))
        => /\ lastCall.outcome = "rejected"
           /\ \A i \in 1..Len(lastCall.events) : lastCall.events[i] \notin PoolSteps

(***************************************************************************)
(* C3                                                                      *)
(***************************************************************************)
\* C3: in every result of execute, fresh or cached, a sensitive column holds in every
\* row a value different from the original value, when the original is not null
C3_SensitiveValueDiffersFromOriginal ==
    (lastCall.op \in {"execute_query", "executor.execute_query"} /\ lastCall.outcome = "ok")
        => LET raw == Fetch(lastCall.query).rows
               res == lastCall.result
           IN  \A r \in 1..Len(res.rows) : \A i \in 1..Len(res.columns) :
                   (is_sensitive(res.columns[i]) /\ raw[r][i] # None)
                       => res.rows[r][i] # raw[r][i]

(***************************************************************************)
(* C5: a call of set_repository_context that names a repository the        *)
(* scanner cache does not hold returns False and leaves every context in   *)
(* memory and every durable record exactly as it was.                      *)
(***************************************************************************)
C5_UnknownNameLeavesContextUnchanged ==
    \A context_id \in IdInputs, names \in NameLists, auto \in BOOLEAN :
        LET r == set_repository_context(context_id, names, auto)
        IN  (\E i \in 1..Len(names) :
                 \A p \in DOMAIN scan_cache : scan_cache[p].name # names[i])
                => /\ r.ret = FALSE
                   /\ r.active = active
                   /\ r.disk = disk

\* a context that has a repository context and a durable record, and a call that
\* names its repository together with an unknown one
C5_Witness ==
    \E context_id \in DOMAIN active \cap DOMAIN disk :
        /\ active[context_id].repository_context # None
        /\ active[context_id].repository_context.selected_repositories = <<AUTH_SERVICE>>
        /\ AUTH_SERVICE \in available_names
        /\ GHOST \notin available_names
        /\ set_repository_context(context_id, <<AUTH_SERVICE, GHOST>>, TRUE).ret = FALSE

(***************************************************************************)
(* C6: after every mutation that reports success the durable record of the *)
(* context is the serialization of the context as it is in memory then.    *)
(***************************************************************************)
\* the record of the context says what the context in memory says
Persisted(contexts, records, context_id) ==
    /\ context_id \in DOMAIN records
    /\ LET c == contexts[context_id]
           d == records[context_id]
       IN  /\ d.last_accessed = IsoFormat(c.last_accessed)
           /\ d.task_context.workflow_step = c.task_context.workflow_step
           /\ (d.repository_context = Missing) = (c.repository_context = None)
           /\ c.repository_context # None =>
                  /\ d.repository_context.selected_repositories
                         = c.repository_context.selected_repositories
                  /\ d.repository_context.last_updated
                         = IsoFormat(c.repository_context.last_updated)
           /\ (d.database_context = Missing) = (c.database_context = None)

C6_DurableRecordFollowsEveryMutation ==
    /\ \A task_id \in TaskIds, d \in Descriptions, t \in TaskTypes :
           LET r == create_task_context(task_id, d, t)
           IN  Persisted(r.active, r.disk, r.ret)
    /\ \A context_id \in IdInputs, names \in NameLists, auto \in BOOLEAN :
           LET r == set_repository_context(context_id, names, auto)
           IN  r.ret = TRUE => Persisted(r.active, r.disk, context_id)
    /\ \A context_id \in IdInputs, step \in StepInputs :
           LET r == update_workflow_step(context_id, step)
           IN  r.ret = TRUE => Persisted(r.active, r.disk, context_id)

(***************************************************************************)
(* C7: the workflow_step of a context is always one of questions, answers, *)
(* card_generation and no step of the program moves it back to an earlier  *)
(* one.                                                                    *)
(***************************************************************************)
StepOrder == <<"questions", "answers", "card_generation">>
StepRank(step) ==
    IF step \in Range(StepOrder) THEN CHOOSE i \in 1..Len(StepOrder) : StepOrder[i] = step
    ELSE 0

C7_WorkflowStepNeverMovesBack ==
    [][\A context_id \in DOMAIN active \cap DOMAIN active' :
           LET before == active[context_id].task_context.workflow_step
               after == active'[context_id].task_context.workflow_step
           IN  /\ after \in Range(StepOrder)
               /\ StepRank(after) >= StepRank(before)]_vars

(***************************************************************************)
(* C8: whatever the task id, description and type, create_task_context     *)
(* followed at once by get_context on the id returned yields a context     *)
(* with that id, at step "questions", without repository or database       *)
(* context, and that id is the current context.                            *)
(***************************************************************************)
C8_CreateThenGetContext ==
    \A task_id \in TaskIds, d \in Descriptions, t \in TaskTypes :
        LET c == create_task_context(task_id, d, t)
            g == get_context(c.active, c.disk, c.ret)
        IN  /\ g.ret # None
            /\ g.ret.context_id = c.ret
            /\ g.ret.task_context.workflow_step = "questions"
            /\ g.ret.repository_context = None
            /\ g.ret.database_context = None
            /\ c.current = c.ret

\* a context made this instant is the current one, and get_context returns it
C8_Witness ==
    /\ current # None
    /\ current \in DOMAIN active
    /\ active[current].created_at = Dt(now)
    /\ active[current].task_context.workflow_step = "questions"
    /\ get_context(active, disk, current).ret # None

(***************************************************************************)
(* C9: cleanup_old_contexts(max_age_hours) removes from memory and from    *)
(* durable storage exactly the contexts last accessed more than            *)
(* max_age_hours ago, keeps every other context and record as it is, and   *)
(* returns the number removed.                                             *)
(***************************************************************************)
OlderThan(context, max_age_hours) == now - context.last_accessed.dt > max_age_hours * 3600

C9_CleanupRemovesExactlyOlder ==
    \A max_age_hours \in MaxAgeHours :
        LET r == cleanup_old_contexts(max_age_hours)
            old == {id \in DOMAIN active : OlderThan(active[id], max_age_hours)}
        IN  /\ DOMAIN r.active = DOMAIN active \ old
            /\ \A id \in DOMAIN r.active : r.active[id] = active[id]
            /\ DOMAIN r.disk = DOMAIN disk \ old
            /\ \A id \in DOMAIN r.disk : r.disk[id] = disk[id]
            /\ r.ret = Cardinality(old)

\* a cleanup has removed the context that was the current one, and its record
C9_Witness ==
    /\ current # None
    /\ current \notin DOMAIN active
    /\ current \notin DOMAIN disk

(***************************************************************************)
(* C10: every call of create_task_context returns an id that no context in *)
(* memory and no durable record has.                                       *)
(***************************************************************************)
C10_FreshContextId ==
    \A task_id \in TaskIds, d \in Descriptions, t \in TaskTypes :
        create_task_context(task_id, d, t).ret \notin DOMAIN active \cup DOMAIN disk

(***************************************************************************)
(* C11                                                                     *)
(***************************************************************************)
\* a single scan that is waiting in a call without force_rescan, for a root whose
\* cache entry is younger than one hour
ServedFromCache(c, repo_path) ==
    /\ c \in DOMAIN scan_calls
    /\ repo_path \in scan_calls[c].waiting
    /\ ~scan_calls[c].force_rescan
    /\ repo_path \in DOMAIN scan_cache
    /\ now - scan_cache[repo_path].last_scanned.dt < 3600

\* C11: when the cache entry of a root is younger than one hour and force_rescan is
\* false, the scan of that root returns the cached info unchanged, starts no analysis
\* and leaves the cache as it was, and a second scan on the cache it leaves returns
\* the same info again
C11_FreshEntryServedFromCache ==
    \A c \in 1..MaxCalls, repo_path \in FirstRoots(MaxRoots) :
        ServedFromCache(c, repo_path) =>
            LET call == scan_calls[c]
                r == begin_single_scan(call, scan_cache, repo_path)
                again == begin_single_scan(new_scan(FALSE, {repo_path}), r.cache,
                                           repo_path)
            IN  /\ r.call.results = Append(call.results, scan_cache[repo_path])
                /\ r.call.running = call.running
                /\ r.cache = scan_cache
                /\ again.call.results = <<scan_cache[repo_path]>>
                /\ again.call.running = <<>>
                /\ again.cache = scan_cache
                /\ \A fails \in BOOLEAN :
                       scan_single_repository(scan_cache, repo_path, FALSE, fails)
                           = scan_cache[repo_path]

\* a scan without force_rescan is about to look at an entry written half an hour ago
C11_Witness ==
    \E c \in 1..MaxCalls, repo_path \in FirstRoots(MaxRoots) :
        /\ ServedFromCache(c, repo_path)
        /\ now - scan_cache[repo_path].last_scanned.dt = 1800

(***************************************************************************)
(* C12                                                                     *)
(***************************************************************************)
RECURSIVE SumInFlight(_)
SumInFlight(ids) ==
    IF ids = {} THEN 0
    ELSE LET c == CHOOSE x \in ids : TRUE
         IN  Cardinality(in_flight(scan_calls[c])) + SumInFlight(ids \ {c})

\* the single scans in flight in the scanner, over all its calls under way
InFlight == SumInFlight(DOMAIN scan_calls)

\* C12: at every moment at most 5 single-repository scans are in flight in the scanner
C12_AtMostFiveInFlight == InFlight <= 5

\* what the semaphore does bound: the single scans in flight of one call
PerCallCeiling ==
    \A c \in DOMAIN scan_calls : Cardinality(in_flight(scan_calls[c])) <= SCAN_CONCURRENCY

\* a call whose semaphore is exhausted while one of its single scans still waits
SemaphoreExhausted ==
    \E c \in DOMAIN scan_calls :
        /\ Cardinality(in_flight(scan_calls[c])) = SCAN_CONCURRENCY
        /\ scan_calls[c].waiting # {}

(***************************************************************************)
(* C13                                                                     *)
(***************************************************************************)
ResultPaths(call) == { call.results[i].path : i \in 1..Len(call.results) }
Entry(cache, repo_path) == IF repo_path \in DOMAIN cache THEN cache[repo_path] ELSE Absent
Completed(call) == call.waiting = {} /\ call.running = <<>>

\* in every state of a call: no failed root is among the results; the resume of a
\* failed single scan leaves the cache, the results and every other single scan of
\* the call as they were; a call that is not complete has a step to take; and a
\* complete call returns exactly the infos of the roots that did not fail
C13_ResultsOfACall ==
    \A c \in DOMAIN scan_calls :
        LET call == scan_calls[c]
        IN  /\ ResultPaths(call) \cap call.failed = {}
            /\ \A i \in 1..Len(call.results) :
                   /\ call.results[i].cls = "RepositoryInfo"
                   /\ call.results[i].path \in call.repo_paths
            /\ \A repo_path \in DOMAIN call.running :
                   call.running[repo_path] = Failure =>
                       LET r == resume_single_scan(call, scan_cache, repo_path)
                       IN  /\ r.cache = scan_cache
                           /\ r.call = [call EXCEPT !.running = Drop(@, repo_path),
                                                    !.failed = @ \cup {repo_path}]
            /\ ~Completed(call) =>
                   \/ call.running # <<>>
                   \/ Cardinality(in_flight(call)) < SCAN_CONCURRENCY
            /\ Completed(call) =>
                   /\ finish_scan(call, scan_cache).ret = call.results
                   /\ ResultPaths(call) = call.repo_paths \ call.failed
                   /\ Len(call.results) = Cardinality(call.repo_paths \ call.failed)

\* in every step: the cache entry of a root changes only when a single scan of that
\* root that succeeded resumes, so the entry of a root whose scan fails stays what
\* it was from the start of the scan to its end
C13_EntryChangesOnSuccessOnly ==
    \A repo_path \in FirstRoots(MaxRoots) :
        Entry(scan_cache', repo_path) # Entry(scan_cache, repo_path) =>
            \E c \in DOMAIN scan_calls :
                /\ repo_path \in DOMAIN scan_calls[c].running
                /\ scan_calls[c].running[repo_path] \notin {Analysing, Failure}
                /\ scan_cache'[repo_path] = scan_calls[c].running[repo_path]

\* C13: a failure while scanning one repository never aborts the batch: the call goes
\* on to its end and returns the info of every discovered root whose scan succeeded,
\* the failed root is absent from the result, and its cache entry is left as it was
C13_FailureIsolated ==
    /\ []C13_ResultsOfACall
    /\ [][C13_EntryChangesOnSuccessOnly]_vars

\* a complete call in which one root failed and another one succeeded, the failed
\* root keeping no cache entry
C13_Witness ==
    \E c \in DOMAIN scan_calls :
        /\ Completed(scan_calls[c])
        /\ scan_calls[c].failed # {}
        /\ scan_calls[c].results # <<>>
        /\ \E repo_path \in scan_calls[c].failed : repo_path \notin DOMAIN scan_cache

(***************************************************************************)
(* C14                                                                     *)
(***************************************************************************)
\* C14: the last_scanned of a cache key never decreases from one step to the next,
\* forced rescans and overlapping calls of scan_repositories included
C14_LastScannedNeverDecreases ==
    [][\A repo_path \in DOMAIN scan_cache :
           /\ repo_path \in DOMAIN scan_cache'
           /\ scan_cache'[repo_path].last_scanned.dt
                  >= scan_cache[repo_path].last_scanned.dt]_vars

(***************************************************************************)
(* C15                                                                     *)
(***************************************************************************)
CachedNames == { scan_cache[p].name : p \in DOMAIN scan_cache }
Untouched(r) == r.cache = scan_cache /\ r.calls = scan_calls

\* C15: the read operations (the repository list, get_repository_by_name,
\* get_file_content, search_code_patterns) leave the cache and the scans under way as
\* they are, and return no data for a repository name that has no cache entry
C15_ReadsOnlyReadTheCache ==
    /\ LET r == get_repository_list(scan_cache, scan_calls)
       IN  /\ Untouched(r)
           /\ { x.name : x \in r.ret } = CachedNames
    /\ \A name \in ReadNames :
           LET r == get_repository_by_name(scan_cache, scan_calls, name)
           IN  /\ Untouched(r)
               /\ name \notin CachedNames => r.ret = None
    /\ \A name \in ReadNames, file_path \in FilePaths :
           LET r == get_file_content(scan_cache, scan_calls, name, file_path)
           IN  /\ Untouched(r)
               /\ name \notin CachedNames => r.ret = None
    /\ \A pattern \in Patterns, repo_names \in ReadNameLists :
           LET r == search_code_patterns(scan_cache, scan_calls, pattern, repo_names)
           IN  /\ Untouched(r)
               /\ repo_names # <<>> =>
                      \A x \in r.ret :
                          x.repository \in Range(repo_names) \cap CachedNames

\* a scan is under way, r1 is cached and can be read and searched, r2 and ghost are not
C15_Witness ==
    /\ scan_calls # <<>>
    /\ ScanRoot(1).name \in CachedNames
    /\ ScanRoot(2).name \notin CachedNames
    /\ get_file_content(scan_cache, scan_calls, ScanRoot(1).name, MAIN_JAVA).ret # None
    /\ search_code_patterns(scan_cache, scan_calls, <<"K", "E", "Y">>, <<>>).ret # {}
    /\ search_code_patterns(scan_cache, scan_calls, <<"K", "E", "Y">>, <<GHOST>>).ret = {}

(***************************************************************************)
(* C16                                                                     *)
(***************************************************************************)
\* C16: for every repository and task description the relevance score is in [0,1]:
\* no term of the points is negative or above its weight (name 3.0, primary language
\* 2.0, other languages 1.0, frameworks 2.0, size 0.5, recency 0.5, technology
\* alignment 1.5), and the score is the points divided by 10, clamped to 1.0
C16_ScoreInUnitInterval ==
    rel_out # <<>> =>
        LET pts == rel_out.points
            total == pts.name + pts.primary_language + pts.languages + pts.frameworks
                         + pts.size + pts.recency + pts.alignment
        IN  /\ pts.name \in 0..3000
            /\ pts.primary_language \in {0, 2000}
            /\ pts.languages \in 0..1000
            /\ pts.frameworks \in 0..2000
            /\ pts.size \in 0..500
            /\ pts.recency \in 0..500
            /\ pts.alignment \in 0..1500
            /\ rel_out.score = (IF total > 10000 THEN 1000 ELSE total \div 10)
            /\ rel_out.score \in 0..1000

\* a repository that collects 10.5 points and is scored 1.0
C16_Witness ==
    /\ rel_out # <<>>
    /\ TotalPoints(rel_out.points) = 10500
    /\ rel_out.score = 1000

(***************************************************************************)
(* C17                                                                     *)
(***************************************************************************)
\* the score of the repository of that name, computed now on its scanner-cache entry
FreshScore(task_description, name) ==
    calculate_repository_relevance(
        CHOOSE repo \in available_repos : repo.name = name,
        extract_keywords(task_description),
        identify_technologies(task_description))

\* C17: after a successful set_repository_context with auto-analysis, relevance_scores
\* has exactly the requested names as keys and each score is the score computed on
\* the repository's scanner-cache entry at the time of the call, whatever scans and
\* relevance analyses came before
C17_StoredScoresAreFresh ==
    \A context_id \in DOMAIN active, repository_names \in GrowingNameLists :
        LET r == set_repository_context(context_id, repository_names, TRUE)
            task_description == active[context_id].task_context.task_description
        IN  r.ret =>
                LET scores == r.active[context_id].repository_context.relevance_scores
                IN  /\ DOMAIN scores = Range(repository_names)
                    /\ \A name \in Range(repository_names) :
                           scores[name] = FreshScore(task_description, name)

(***************************************************************************)
(* C18                                                                     *)
(***************************************************************************)
\* C18: the relevant-table list holds no table of score 0, is in descending order of
\* score, keeps tables of equal score in their order in the analysis, and has at most
\* 10 entries, which are the 10 highest-ranked when more tables score above zero
C18_RelevantTablesRanked ==
    tab_out # <<>> =>
        LET tables == tab_in.schema_analysis.tables
            out == tab_out.ret
            Score(i) == table_score(tables[i], tab_in.task_keywords)
            positive == { i \in 1..Len(tables) : Score(i) > 0 }
            At(k) == CHOOSE i \in 1..Len(tables) : tables[i].name = out[k]
            Before(i, j) == Score(i) > Score(j) \/ (Score(i) = Score(j) /\ i < j)
        IN  /\ Len(out) = Min(10, Cardinality(positive))
            /\ \A k \in 1..Len(out) :
                   /\ \E i \in positive : tables[i].name = out[k]
                   /\ Score(At(k)) > 0
            /\ \A k \in 1..Len(out), l \in 1..Len(out) : k < l => Before(At(k), At(l))
            /\ \A i \in positive :
                   (\A k \in 1..Len(out) : At(k) # i) =>
                       \A k \in 1..Len(out) : Before(At(k), i)

\* more than 10 tables score above zero, with ties among them and a table of score 0
C18_Witness ==
    /\ tab_out # <<>>
    /\ Len(tab_out.ret) = 10
    /\ LET tables == tab_in.schema_analysis.tables
           Score(i) == table_score(tables[i], tab_in.task_keywords)
       IN  /\ Cardinality({ i \in 1..Len(tables) : Score(i) > 0 }) > 10
           /\ \E i \in 1..Len(tables) : Score(i) = 0
           /\ \E i, j \in 1..Len(tables) : i # j /\ Score(i) = Score(j) /\ Score(i) > 0
           /\ \E i, j \in 1..Len(tables) : Score(i) > Score(j) /\ Score(j) > 0 /\ i > j

(***************************************************************************)
(* C19                                                                     *)
(***************************************************************************)
\* the query cache holds a fresh answer to the statement of the connection test
ProbeCached ==
    /\ <<Q_DUAL, NoParams>> \in DOMAIN query_cache
    /\ now - query_cache[<<Q_DUAL, NoParams>>].time < QUERY_CACHE_TTL

\* C19: set_database_context tests the connection against the database, never from
\* the query cache, before it analyses or stores anything; when the test fails, no
\* connector is configured or the context id is unknown, it returns failure, runs no
\* schema analysis and leaves the context and its durable record as they were
C19_ConnectionTestedFirst ==
    \A context_id \in IdInputs, schema_name \in SchemaNames, analyze_schema \in BOOLEAN :
        \A r \in set_database_context(context_id, schema_name, analyze_schema) :
            LET refused == \/ context_id \notin DOMAIN active
                           \/ database_connector = "None"
                           \/ (r.tested /\ ~r.test.ret)
            IN  /\ ~(context_id \notin DOMAIN active \/ database_connector = "None")
                       => r.tested
                /\ r.tested =>
                       /\ "cache_hit" \notin Range(r.test.events)
                       /\ r.test.ret => Contains(r.test.events, <<"acquire", "execute">>)
                /\ (r.ret \/ r.analysed) => (r.tested /\ r.test.ret)
                /\ refused =>
                       /\ ~r.ret
                       /\ ~r.analysed
                       /\ r.active = active
                       /\ r.disk = disk
                /\ ~refused => r.ret

\* a context that was last accessed earlier, a connector, a fresh cached answer to the
\* statement of the test, and a call whose test can fail or succeed
C19_Witness ==
    /\ ProbeCached
    /\ database_connector # "None"
    /\ \E context_id \in DOMAIN active :
           /\ active[context_id].last_accessed.dt < now
           /\ context_id \in DOMAIN disk
           /\ \E r \in set_database_context(context_id, <<"a", "p", "p">>, TRUE) :
                  r.tested /\ ~r.test.ret
           /\ \E r \in set_database_context(context_id, <<"a", "p", "p">>, TRUE) :
                  r.ret /\ r.active # active

(***************************************************************************)
(* C20                                                                     *)
(***************************************************************************)
\* the database contexts that set_database_context has stored
StoredDatabaseContexts ==
    { active[context_id].database_context : context_id \in DOMAIN active } \ {None}

\* C20: in every DatabaseContext stored by set_database_context, table_relationships
\* has at most 5 entries and its keys are among the first 5 names of relevant_tables
C20_RelationshipsOfTopFive ==
    \A db_context \in StoredDatabaseContexts :
        /\ Cardinality(DOMAIN db_context.table_relationships) <= 5
        /\ DOMAIN db_context.table_relationships
               \subseteq Range(first_tables(db_context.relevant_tables, 5))
        /\ DOMAIN db_context.table_relationships \subseteq Range(db_context.relevant_tables)

\* a stored context with more than five relevant tables and the relationships of five
C20_Witness ==
    \E db_context \in StoredDatabaseContexts :
        /\ Len(db_context.relevant_tables) > 5
        /\ Cardinality(DOMAIN db_context.table_relationships) = 5

(***************************************************************************)
(* C25                                                                     *)
(***************************************************************************)
\* the distinct keywords of the task that are substrings of the lowercased name
NameKeywords(repo, task_description) ==
    { keyword \in Range(extract_keywords(task_description)) :
          Contains(Lower(repo.name), keyword) }

\* C25: the name-match term of the score is 1.0 for each distinct task keyword that is
\* a substring of the lowercased repository name, capped at 3.0: a keyword written
\* several times in the task description counts once
C25_NameTermCountsDistinctKeywords ==
    rel_out # <<>> =>
        rel_out.points.name =
            Min(3000, 1000 * Cardinality(NameKeywords(rel_in.repo, rel_in.task_description)))

(***************************************************************************)
(* C28                                                                     *)
(***************************************************************************)
\* the fields of a context other than last_accessed
SameButLastAccessed(c, d) ==
    /\ DOMAIN c = DOMAIN d
    /\ \A f \in DOMAIN c \ {"last_accessed"} : c[f] = d[f]

\* what get_context may change in memory: the last_accessed of the context it returns,
\* or the insertion of the context read from its durable record
C28_GetContextFrame ==
    \A context_id \in IdInputs :
        LET g == get_context(active, disk, context_id)
        IN  /\ DOMAIN g.active \subseteq DOMAIN active \cup {context_id}
            /\ \A id \in DOMAIN active \ {context_id} :
                   id \in DOMAIN g.active /\ g.active[id] = active[id]
            /\ context_id \in DOMAIN active =>
                   /\ SameButLastAccessed(g.active[context_id], active[context_id])
                   /\ g.ret = g.active[context_id]
            /\ (context_id \notin DOMAIN active /\ context_id \in DOMAIN disk) =>
                   /\ g.active[context_id] = deserialize_context(disk[context_id])
                   /\ g.ret = g.active[context_id]
            /\ (context_id \notin DOMAIN active /\ context_id \notin DOMAIN disk) =>
                   /\ g.active = active
                   /\ g.ret = None

\* a read leaves the durable records and the current id alone, and a durable record
\* that is written carries the time of the mutation that wrote it
C28_RecordsStampedByMutations ==
    /\ (GetContext \/ GetCurrentContext) => (disk' = disk /\ current' = current)
    /\ \A id \in DOMAIN disk' :
           (id \notin DOMAIN disk \/ disk'[id] # disk[id]) =>
               disk'[id].last_accessed = IsoFormat(Dt(now))

\* C28: get_context changes nothing except the in-memory last_accessed of the context
\* it returns, or inserts the context reloaded from durable storage; it never rewrites
\* the durable record, whose last_accessed is the time of the last persisted mutation
C28_ReadsLeaveTheRecord ==
    /\ []C28_GetContextFrame
    /\ [][C28_RecordsStampedByMutations]_vars

\* a context read after its last mutation: in memory it was accessed later than its
\* durable record says, and another context was not touched by the read
C28_Witness ==
    \E id \in DOMAIN active \cap DOMAIN disk :
        /\ active[id].last_accessed.dt > disk[id].last_accessed.iso
        /\ active[id].last_accessed = Dt(now)
        /\ SameButLastAccessed(active[id], deserialize_context(disk[id]))

(***************************************************************************)
(* C29                                                                     *)
(***************************************************************************)
\* every cached root is listed and is a name that set_repository_context accepts
CachedRootsAccepted ==
    \A p \in DOMAIN scan_cache :
        /\ \E listed \in get_repository_list(scan_cache, scan_calls).ret :
               listed.path = p
        /\ \A context_id \in DOMAIN active, auto_analyze_relevance \in BOOLEAN :
               set_repository_context(context_id, <<scan_cache[p].name>>,
                                      auto_analyze_relevance).ret

\* no step of the scanner or of a read operation removes a cached root
CachedRootsStay == DOMAIN scan_cache \subseteq DOMAIN scan_cache'

\* C29: over any sequence of scans, forced or not, and read operations the set of
\* cached root paths never shrinks, so a root that is found no more stays listed and
\* stays a name that set_repository_context accepts
C29_CacheNeverShrinks ==
    /\ []CachedRootsAccepted
    /\ [][CachedRootsStay]_vars

\* two cached roots of which a later scan has refreshed only one, and a context
C29_Witness ==
    /\ active # <<>>
    /\ \E p, q \in DOMAIN scan_cache :
           /\ scan_cache[p].last_scanned = Dt(now)
           /\ scan_cache[q].last_scanned.dt < now

(***************************************************************************)
(* C23                                                                     *)
(***************************************************************************)
\* the query cache holds an entry for the query and the parameters younger than the TTL
FreshEntry(query, parameters) ==
    /\ <<query, parameters>> \in DOMAIN query_cache
    /\ now - query_cache[<<query, parameters>>].time < QUERY_CACHE_TTL

CachedQueries == ExecQueries \cup {Q_DUAL}

\* the executor returns a stored result only to a caller that has not opted out and
\* only from a fresh entry for the same query and parameters; a call that has opted
\* out neither reads nor writes the cache
ExecutorHonoursOptOut ==
    \A query \in CachedQueries, parameters \in QueryParams, use_cache \in BOOLEAN :
        \A o \in execute_query(query, parameters, use_cache, pool) :
            /\ "execute" \notin Range(o.events) /\ o.outcome = "ok" =>
                   /\ use_cache
                   /\ FreshEntry(query, parameters)
                   /\ o.result = query_cache[<<query, parameters>>].result
            /\ ~use_cache =>
                   /\ "cache_hit" \notin Range(o.events)
                   /\ "cache_store" \notin Range(o.events)
                   /\ o.cache = query_cache

\* a caller of the connector's execute_query can have the query run on the database
\* although a fresh entry is stored
ConnectorCallerCanOptOut ==
    \A query \in CachedQueries, parameters \in QueryParams :
        FreshEntry(query, parameters) =>
            \E o \in connector_execute_query(query, parameters) :
                "cache_hit" \notin Range(o.events)

\* C23: execute(query, parameters) returns a stored result without a database round
\* trip only when the caller has not opted out of the cache and a fresh entry for the
\* same query and parameters exists; a caller of the query operation can opt out, and
\* an opted-out call neither reads nor writes the query cache
C23_CallersMayOptOut == ExecutorHonoursOptOut /\ ConnectorCallerCanOptOut

(***************************************************************************)
(* Claims about SchemaAnalyzer.analyze_schema                              *)
(***************************************************************************)
\* the rows of the listing whose unit of work returned a TableInfo
Succeeded(call) == { i \in Range(call.tables) : call.done[i] # Failure }

\* C21: when the units of some tables of a schema fail, the analysis still completes
\* and its result holds exactly the tables whose unit succeeded: the failed tables are
\* absent and no failure of a unit is raised to the caller
C21_FailedTablesLeftOut ==
    \A c \in Gathered :
        LET call == analyses[c]
            r == finish_analysis(call, schema_cache, busy, FALSE)
        IN  /\ ~r.raised
            /\ Len(r.result.tables) = Cardinality(Succeeded(call))
            /\ \A k \in 1..Len(r.result.tables) :
                   \E i \in Succeeded(call) : r.result.tables[k] = call.done[i]
            /\ \A i \in Succeeded(call) :
                   \E k \in 1..Len(r.result.tables) : r.result.tables[k] = call.done[i]

\* an analysis of the schema of two tables has completed with one table
C21_Witness ==
    /\ dbSchema.n = 2
    /\ lastCall.op = "analyze_schema"
    /\ lastCall.outcome = "analysed"
    /\ Len(lastCall.result.tables) = 1

\* the counts of an analysis agree with its tables, and no two tables share a name
ConsistentAnalysis(r) ==
    /\ r.total_tables = Len(r.tables)
    /\ r.total_columns =
           Cardinality({ <<k, j>> \in (1..Len(r.tables)) \X (1..3) :
                           j <= Len(r.tables[k].columns) })
    /\ \A k, l \in 1..Len(r.tables) : r.tables[k].name = r.tables[l].name => k = l

\* C22: every SchemaAnalysis that analyze_schema produces, fresh or cached, has
\* total_columns equal to the sum of the columns of its tables, total_tables equal to
\* the number of its tables, and no two tables of the same name
C22_AnalysisCountsItsTables ==
    /\ \A k \in DOMAIN schema_cache : ConsistentAnalysis(schema_cache[k].result)
    /\ lastCall.op = "analyze_schema" /\ lastCall.outcome \in {"analysed", "cached"} =>
           ConsistentAnalysis(lastCall.result)
    /\ \A c \in Gathered :
           ConsistentAnalysis(finish_analysis(analyses[c], schema_cache, busy,
                                              FALSE).result)

\* a cached analysis of two tables and three columns has been returned
C22_Witness ==
    /\ lastCall.op = "analyze_schema"
    /\ lastCall.outcome = "cached"
    /\ lastCall.result.total_tables = 2
    /\ lastCall.result.total_columns = 3

\* C24: during analyze_schema every unit of work of a table runs on a connection taken
\* from the pool for that unit, and the units running at the same time are never more
\* than the largest size of the pool
C24_UnitsBoundedByPool ==
    /\ UnitsRunning <= busy
    /\ UnitsRunning <= MAX_CONNECTIONS

\* how many times a step occurs among the steps of a call
Steps(events, step) == Cardinality({ k \in 1..Len(events) : events[k] = step })

\* C30: every connection taken from the pool is given back exactly once on every
\* path: when an execute_query or analyze_schema call has ended, with a result or
\* with an exception (query error, failed unit of a table, failed metadata query),
\* it holds no connection, so calls that fail cannot use up the pool
C30_ConnectionsReleased ==
    /\ busy = Cardinality(DOMAIN analyses)
    /\ Steps(lastCall.events, "release") = Steps(lastCall.events, "acquire")
    /\ Steps(lastCall.events, "acquire") <= 1
    /\ \A c \in Gathered, others_fail \in BOOLEAN :
           LET r == finish_analysis(analyses[c], schema_cache, busy, others_fail)
           IN  /\ r.busy = busy - 1
               /\ Steps(r.events, "release") = Steps(r.events, "acquire")
    /\ \A query \in {Q_SELECT, Q_DROP}, parameters \in QueryParams :
           \A o \in connector_execute_query(query, parameters) :
               Steps(o.events, "release") = Steps(o.events, "acquire")

\* an analysis has raised after its units of work, on a metadata query, and no
\* connection is out of the pool
C30_Witness ==
    /\ analyses = <<>>
    /\ busy = 0
    /\ lastCall.op = "analyze_schema"
    /\ lastCall.outcome = "raised"
    /\ "acquire" \in Range(lastCall.events)
    /\ "gather" \in Range(lastCall.events)

(***************************************************************************)
(* Claims about set_database_context among other operations                *)
(***************************************************************************)
\* the call of set_database_context returns True in this step
ReturnsTrue(c) ==
    /\ c \in DOMAIN db_calls
    /\ db_calls[c].pc # "returned"
    /\ db_calls'[c].pc = "returned"
    /\ db_calls'[c].ret

SuccessIsStored ==
    \A c \in DOMAIN db_calls :
        ReturnsTrue(c) =>
            LET context_id == db_calls'[c].context_id
            IN  /\ context_id \in DOMAIN active'
                /\ active'[context_id].database_context = db_calls'[c].db_context
                /\ context_id \in DOMAIN disk'
                /\ disk'[context_id] = serialize_context(active'[context_id]).data

\* C26: however set_database_context is interleaved at its suspension points with
\* cleanup_old_contexts and the other operations, when it returns True the context of
\* that id is in the map of active contexts, holds the new database context, and its
\* durable record reflects it
C26_SuccessIsStored == [][SuccessIsStored]_vars

\* a DatabaseContext whose parts belong together
ConsistentDatabaseContext(dc) ==
    IF dc.schema_analysis # None
    THEN /\ dc.schema_analysis.schema_name = dc.selected_schema
         /\ \A k \in 1..Len(dc.relevant_tables) :
                \E i \in 1..Len(dc.schema_analysis.tables) :
                    dc.schema_analysis.tables[i].name = dc.relevant_tables[k]
    ELSE /\ dc.relevant_tables = <<>>
         /\ dc.table_relationships = <<>>

\* C27: every DatabaseContext stored in a context is consistent, also when calls of
\* set_database_context for one context and different schemas overlap: a schema
\* analysis that is present is the one of selected_schema and has a table for each
\* name in relevant_tables, and without a schema analysis there are no relevant
\* tables and no relationships
C27_DatabaseContextConsistent ==
    /\ \A id \in DOMAIN active :
           active[id].database_context # None =>
               ConsistentDatabaseContext(active[id].database_context)
    /\ \A c \in DOMAIN db_calls :
           db_calls[c].pc = "returned" /\ db_calls[c].ret =>
               ConsistentDatabaseContext(db_calls[c].db_context)

\* the second of two calls for one context has stored the analysis of its schema with
\* a relevant table while the first, for the other schema, awaits the relationships
C27_Witness ==
    /\ DOMAIN db_calls = {1, 2}
    /\ db_calls[1].pc = "relationships"
    /\ db_calls[2].pc = "returned" /\ db_calls[2].ret
    /\ db_calls[1].context_id = db_calls[2].context_id
    /\ db_calls[1].schema_name # db_calls[2].schema_name
    /\ db_calls[1].context_id \in DOMAIN active
    /\ LET dc == active[db_calls[1].context_id].database_context
       IN  /\ dc # None
           /\ dc.schema_analysis # None
           /\ dc.selected_schema = db_calls[2].schema_name
           /\ dc.relevant_tables # <<>>
====
